---- MODULE Spec2Model ----
(***************************************************************************)
(* Whiteboard semantic index: the Change Observer (handleChange), the      *)
(* clustering step and the index synchronisation pass (updateVectorIndex)  *)
(* of src/app/page.tsx.                                                    *)
(*                                                                         *)
(* Texts are sequences of one-character strings, so that trim and join are *)
(* computed and not assumed.  A cluster centre is the pair of coordinate   *)
(* sums with the member count n, standing for (x/n, y/n); distances are    *)
(* compared by their squares, cross-multiplied, which is exact for the     *)
(* integer coordinates used here.                                          *)
(*                                                                         *)
(* The vector index (client-vector-search's EmbeddingIndex) is outside the *)
(* repository.  It is modelled at its interface: `objects` is the list the *)
(* instance holds in memory (add, remove act on it), `stored` is what      *)
(* IndexedDB holds (getAllObjectsFromIndexedDB reads it, saveIndex writes  *)
(* the in-memory list to it).  What remove does with an id that is not in  *)
(* the list is not determined by the repository: both outcomes (it throws, *)
(* it does nothing) are behaviours of the model.                           *)
(***************************************************************************)
EXTENDS Integers, Sequences, FiniteSets, TLC

VARIABLES
  canvas,          \* the editor's current page shapes, in enumeration order
  previousShapes,  \* previousShapesRef.current: the retained snapshot
  emitted,         \* number of onShapesChange calls made so far
  passes,          \* updateVectorIndex calls in flight, in call order
  objects,         \* embeddingIndexRef.current: the in-memory index entries
  stored,          \* the IndexedDB copy of the index
  lastDone,        \* <<snapshot of the pass that completed most recently>>
  doneAdds,        \* <<shapeId, name>> of the entries added by completed passes
  overlapSeen,     \* some pass was started while another was in flight
  created,         \* number of shapes created so far (ids are never reused)
  changes,         \* canvas mutations made so far
  cl,              \* the clustering step run on its own: input and result
  gw,              \* a getEmbeddingWithRetry call on its own: input and result
  cap,             \* a captureAreaAroundShapes call on its own
  chat,            \* a generateChatResponse / POST call on its own
  relay,           \* a POST /api/chat request on its own
  ui,              \* the chat panel: conversation, input, handleChat calls
  hs,              \* the search box: query, results, a handleSearch call
  md,              \* the focal point of one chat: screenshot region and view
  items,           \* queue revision: indexingQueue.current.items
  processing,      \* queue revision: indexingQueue.current.processing
  drains,          \* queue revision: the processQueue calls that are running
  arrived,         \* queue revision: number of updateVectorIndex calls so far
  dequeued         \* queue revision: arrival numbers, in the order of the shifts

vars == <<canvas, previousShapes, emitted, passes, objects, stored, lastDone,
          doneAdds, overlapSeen, created, changes, cl, gw, cap, chat,
          relay, ui, hs, md,
          items, processing, drains, arrived, dequeued>>

(* the whiteboard, its observer and its index *)
appVars == <<canvas, previousShapes, emitted, passes, objects, stored, lastDone,
             doneAdds, overlapSeen, created, changes>>

(* the functions run on their own *)
pureVars == <<cl, gw, cap, chat>>

(* the request handlers that are run on their own *)
handlerVars == <<relay, ui, hs, md>>

unitVars == <<pureVars, handlerVars>>

(* the indexing queue of the queue-based revision (src/unnamed/part_003) *)
queueVars == <<items, processing, drains, arrived, dequeued>>

----------------------------------------------------------------------------
(* Bounds *)

MaxChanges == 3

MaxInFlight == 2

(* coordinates a shape can be moved to *)
Xs == {0, 100, 200, 400}

Ys == {0, 100}

(* texts a shape can be edited to; the last one is blank *)
Texts == {<<"a">>, <<"b">>, <<" ">>}

ShapeTypes == {"text", "geo"}

HasBounds == {TRUE, FALSE}

----------------------------------------------------------------------------
(* Values *)

CLUSTER_THRESHOLD == 200

RETRIES == 3

Whitespace == {" "}

RECURSIVE TrimStart(_)
TrimStart(t) ==
  IF t # <<>> /\ Head(t) \in Whitespace THEN TrimStart(Tail(t)) ELSE t

RECURSIVE TrimEnd(_)
TrimEnd(t) ==
  IF t # <<>> /\ t[Len(t)] \in Whitespace
  THEN TrimEnd(SubSeq(t, 1, Len(t) - 1))
  ELSE t

Trim(t) == TrimEnd(TrimStart(t))

RECURSIVE Join(_, _)
Join(ts, sep) ==
  IF ts = <<>> THEN <<>>
  ELSE IF Len(ts) = 1 THEN ts[1]
  ELSE ts[1] \o sep \o Join(Tail(ts), sep)

Range(s) == {s[i] : i \in 1..Len(s)}

RECURSIVE SumSeq(_)
SumSeq(s) == IF s = <<>> THEN 0 ELSE Head(s) + SumSeq(Tail(s))

(* A point as the editor gives it, as a centre with count 1. *)
Vec(x, y) == [x |-> x, y |-> y, n |-> 1]

(* The square of calculateDistance(p1, p2) times (p1.n * p2.n)^2. *)
calculateDistance(p1, p2) ==
  LET dx == p2.x * p1.n - p1.x * p2.n
      dy == p2.y * p1.n - p1.y * p2.n
  IN  dx * dx + dy * dy

WithinThresholdFlipped(p1, p2) ==
  calculateDistance(p1, p2)
    > (CLUSTER_THRESHOLD * p1.n * p2.n) * (CLUSTER_THRESHOLD * p1.n * p2.n)

WithinThresholdInclusive(p1, p2) ==
  calculateDistance(p1, p2)
    <= (CLUSTER_THRESHOLD * p1.n * p2.n) * (CLUSTER_THRESHOLD * p1.n * p2.n)

(* calculateDistance(p1, p2) < CLUSTER_THRESHOLD *)
WithinThreshold(p1, p2) ==
  calculateDistance(p1, p2)
    < (CLUSTER_THRESHOLD * p1.n * p2.n) * (CLUSTER_THRESHOLD * p1.n * p2.n)

----------------------------------------------------------------------------
(* Clustering: the reduce of updateVectorIndex *)

(* the first cluster within the threshold whose centre is nearest, or 0 *)
FindNearestCluster(acc, shape) ==
  LET hits == {k \in 1..Len(acc) : WithinThreshold(shape.center, acc[k].center)}
      Nearer(j, k) ==
        calculateDistance(shape.center, acc[j].center) * acc[k].center.n * acc[k].center.n
          <= calculateDistance(shape.center, acc[k].center) * acc[j].center.n * acc[j].center.n
  IN  IF hits = {} THEN 0
      ELSE CHOOSE k \in hits :
             /\ \A j \in hits : Nearer(k, j)
             /\ \A j \in hits : (Nearer(j, k) /\ Nearer(k, j)) => k <= j

(* acc.find(...): the index of the first cluster within the threshold, or 0 *)
FindCluster(acc, shape) ==
  LET hits == {k \in 1..Len(acc) : WithinThreshold(shape.center, acc[k].center)}
  IN  IF hits = {} THEN 0 ELSE CHOOSE k \in hits : \A j \in hits : k <= j

Centroid(shapes) ==
  [x |-> SumSeq([i \in 1..Len(shapes) |-> shapes[i].center.x]),
   y |-> SumSeq([i \in 1..Len(shapes) |-> shapes[i].center.y]),
   n |-> Len(shapes)]

(* the note that joins is put in front of the members *)
ClusterStepUnshift(acc, shape) ==
  LET k == FindCluster(acc, shape)
  IN  IF k # 0
      THEN [acc EXCEPT ![k] =
              [shapes |-> <<shape>> \o acc[k].shapes,
               center |-> Centroid(Append(acc[k].shapes, shape))]]
      ELSE Append(acc, [shapes |-> <<shape>>, center |-> shape.center])

(* the centre moved half way to the note that joins *)
ClusterStepRunningMean(acc, shape) ==
  LET k == FindCluster(acc, shape)
  IN  IF k # 0
      THEN [acc EXCEPT ![k] =
              [shapes |-> Append(acc[k].shapes, shape),
               center |-> [x |-> acc[k].center.x + shape.center.x * acc[k].center.n,
                           y |-> acc[k].center.y + shape.center.y * acc[k].center.n,
                           n |-> 2 * acc[k].center.n]]]
      ELSE Append(acc, [shapes |-> <<shape>>, center |-> shape.center])

ClusterStep(acc, shape) ==
  LET k == FindCluster(acc, shape)
  IN  IF k # 0
      THEN [acc EXCEPT ![k] =
              [shapes |-> Append(acc[k].shapes, shape),
               center |-> Centroid(Append(acc[k].shapes, shape))]]
      ELSE Append(acc, [shapes |-> <<shape>>, center |-> shape.center])

RECURSIVE Reduce(_, _)
Reduce(acc, shapes) ==
  IF shapes = <<>> THEN acc
  ELSE Reduce(ClusterStep(acc, Head(shapes)), Tail(shapes))

Clusters(textShapes) == Reduce(<<>>, textShapes)

CombinedTextKeepsEmpty(cluster) ==
  Join([i \in 1..Len(cluster.shapes) |-> Trim(cluster.shapes[i].text)],
       <<" ">>)
CombinedText(cluster) ==
  Join(SelectSeq([i \in 1..Len(cluster.shapes) |-> Trim(cluster.shapes[i].text)],
                 LAMBDA t : t # <<>>),
       <<" ">>)

----------------------------------------------------------------------------
(* The Change Observer: WhiteboardWithSearch.handleChange *)

(* changedShapes: the text shapes with non-blank text *)
IsTextNote(shape) == shape.type = "text" /\ Trim(shape.text) # <<>>

(* newTextShapes: the Map built by the forEach, in insertion order *)
NewTextShapes(c) ==
  LET changedShapes == SelectSeq(c, LAMBDA shape : IsTextNote(shape) /\ shape.bounds)
  IN  [i \in 1..Len(changedShapes) |->
         [id |-> changedShapes[i].id, text |-> changedShapes[i].text,
          center |-> changedShapes[i].center]]

Lookup(m, id) == SelectSeq(m, LAMBDA e : e.id = id)

HasChangesKnownIds(prev, new) ==
  \/ \E i \in 1..Len(new) :
       LET previousData == Lookup(prev, new[i].id)
       IN  /\ previousData # <<>>
           /\ \/ previousData[1].text # new[i].text
              \/ previousData[1].center.x # new[i].center.x
              \/ previousData[1].center.y # new[i].center.y
  \/ Len(prev) # Len(new)

HasChangesByReference(prev, new) ==
  \/ new # <<>>
  \/ Len(prev) # Len(new)

HasChangesNoY(prev, new) ==
  \/ \E i \in 1..Len(new) :
       LET previousData == Lookup(prev, new[i].id)
       IN  \/ previousData = <<>>
           \/ previousData[1].text # new[i].text
           \/ previousData[1].center.x # new[i].center.x
  \/ Len(prev) # Len(new)

HasChanges(prev, new) ==
  \/ \E i \in 1..Len(new) :
       LET previousData == Lookup(prev, new[i].id)
       IN  \/ previousData = <<>>
           \/ previousData[1].text # new[i].text
           \/ previousData[1].center.x # new[i].center.x
           \/ previousData[1].center.y # new[i].center.y
  \/ Len(prev) # Len(new)

----------------------------------------------------------------------------
(* The Embedding Gateway: getEmbeddingWithRetry.  `calls` tells, for the   *)
(* k-th call of the provider, whether it succeeds.                         *)

(* a delay is waited after the last failure as well *)
RECURSIVE getEmbeddingWithRetryLastDelay(_, _, _)
getEmbeddingWithRetryLastDelay(calls, k, retries) ==
  IF calls[k] THEN [ok |-> TRUE, calls |-> k, delays |-> k - 1]
  ELSE IF retries > 0 THEN getEmbeddingWithRetryLastDelay(calls, k + 1, retries - 1)
  ELSE [ok |-> FALSE, calls |-> k, delays |-> k]

(* one retry too few: the last retry is given up *)
RECURSIVE getEmbeddingWithRetryShort(_, _, _)
getEmbeddingWithRetryShort(calls, k, retries) ==
  IF calls[k] THEN [ok |-> TRUE, calls |-> k, delays |-> k - 1]
  ELSE IF retries > 1 THEN getEmbeddingWithRetryShort(calls, k + 1, retries - 1)
  ELSE [ok |-> FALSE, calls |-> k, delays |-> k - 1]

RECURSIVE getEmbeddingWithRetry(_, _, _)
getEmbeddingWithRetry(calls, k, retries) ==
  IF calls[k] THEN [ok |-> TRUE, calls |-> k, delays |-> k - 1]
  ELSE IF retries > 0 THEN getEmbeddingWithRetry(calls, k + 1, retries - 1)
  ELSE [ok |-> FALSE, calls |-> k, delays |-> k - 1]

(* the outcomes of the provider's calls, one more than a call can use *)
ProviderRuns == [1..(RETRIES + 2) -> BOOLEAN]

----------------------------------------------------------------------------
(* The Index Synchronizer: updateVectorIndex *)

NewPass(textShapes) ==
  [snap |-> textShapes, pc |-> "getAll", existingObjects |-> <<>>,
   ci |-> 1, ri |-> 1, log |-> <<>>, prior |-> doneAdds,
   startEmpty |-> (objects = <<>> /\ stored = <<>>)]

(* existingShapeIds.get(id): a Map built from the entries in order, so the *)
(* last entry with a shapeId is the one kept                               *)
ExistingFor(existingObjects, id) ==
  LET hits == {k \in 1..Len(existingObjects) : existingObjects[k].shapeId = id}
  IN  IF hits = {} THEN <<>>
      ELSE <<existingObjects[CHOOSE k \in hits : \A j \in hits : j <= k]>>

RECURSIVE Concat(_)
Concat(ss) == IF ss = <<>> THEN <<>> ELSE Head(ss) \o Concat(Tail(ss))

(* existingEmbeddings of a cluster *)
ExistingEmbeddings(existingObjects, cluster) ==
  Concat([i \in 1..Len(cluster.shapes) |->
            ExistingFor(existingObjects, cluster.shapes[i].id)])

RECURSIVE SettleSkipUnchanged(_)
SettleSkipUnchanged(p) ==
  LET clusters == Clusters(p.snap)
      unchanged(c) == \E k \in 1..Len(p.existingObjects) :
                        /\ p.existingObjects[k].shapeId = c.shapes[1].id
                        /\ p.existingObjects[k].name = CombinedText(c)
  IN  IF p.ci > Len(clusters) THEN [p EXCEPT !.pc = "save"]
      ELSE IF CombinedText(clusters[p.ci]) = <<>> \/ unchanged(clusters[p.ci])
      THEN SettleSkipUnchanged([p EXCEPT !.ci = p.ci + 1, !.ri = 1,
                                         !.log = Append(p.log, "empty")])
      ELSE IF p.ri <= Len(ExistingEmbeddings(p.existingObjects, clusters[p.ci]))
      THEN [p EXCEPT !.pc = "remove"]
      ELSE [p EXCEPT !.pc = "embed"]

(* the embedding is requested with the old entries still in place *)
RECURSIVE SettleNoRemove(_)
SettleNoRemove(p) ==
  LET clusters == Clusters(p.snap)
  IN  IF p.ci > Len(clusters) THEN [p EXCEPT !.pc = "save"]
      ELSE IF CombinedText(clusters[p.ci]) = <<>>
      THEN SettleNoRemove([p EXCEPT !.ci = p.ci + 1, !.ri = 1,
                                    !.log = Append(p.log, "empty")])
      ELSE [p EXCEPT !.pc = "embed"]

(* every cluster is worked on, whatever its combined text *)
RECURSIVE SettleNoEmptyCheck(_)
SettleNoEmptyCheck(p) ==
  LET clusters == Clusters(p.snap)
  IN  IF p.ci > Len(clusters) THEN [p EXCEPT !.pc = "save"]
      ELSE IF p.ri <= Len(ExistingEmbeddings(p.existingObjects, clusters[p.ci]))
      THEN [p EXCEPT !.pc = "remove"]
      ELSE [p EXCEPT !.pc = "embed"]

(* The place where a pass next suspends, from cluster p.ci on: clusters     *)
(* with an empty combined text are passed over.                            *)
RECURSIVE Settle(_)
Settle(p) ==
  LET clusters == Clusters(p.snap)
  IN  IF p.ci > Len(clusters) THEN [p EXCEPT !.pc = "save"]
      ELSE IF CombinedText(clusters[p.ci]) = <<>>
      THEN Settle([p EXCEPT !.ci = p.ci + 1, !.ri = 1,
                            !.log = Append(p.log, "empty")])
      ELSE IF p.ri <= Len(ExistingEmbeddings(p.existingObjects, clusters[p.ci]))
      THEN [p EXCEPT !.pc = "remove"]
      ELSE [p EXCEPT !.pc = "embed"]

(* one try around the whole loop: a failure ends the loop *)
NextClusterOrAbort(p, outcome) ==
  IF outcome \in {"failed", "threw"}
  THEN [p EXCEPT !.log = Append(p.log, outcome), !.pc = "save"]
  ELSE Settle([p EXCEPT !.ci = p.ci + 1, !.ri = 1, !.log = Append(p.log, outcome)])

(* the catch of the per-cluster try, or the end of its body *)
NextCluster(p, outcome) ==
  Settle([p EXCEPT !.ci = p.ci + 1, !.ri = 1, !.log = Append(p.log, outcome)])

(* a fresh id: `cluster-${Date.now()}-${Math.random()}` *)
FreshId ==
  LET used == {objects[k].id : k \in 1..Len(objects)}
              \cup {stored[k].id : k \in 1..Len(stored)}
              \cup UNION {{passes[i].existingObjects[k].id :
                             k \in 1..Len(passes[i].existingObjects)} :
                          i \in 1..Len(passes)}
  IN  CHOOSE n \in 1..(Cardinality(used) + 1) : n \notin used

RemoveAt(s, k) == SubSeq(s, 1, k - 1) \o SubSeq(s, k + 1, Len(s))

(* findVectorIndex({id}): the first entry with that id, or 0 *)
FindVectorIndex(id) ==
  LET hits == {k \in 1..Len(objects) : objects[k].id = id}
  IN  IF hits = {} THEN 0 ELSE CHOOSE k \in hits : \A j \in hits : k <= j

----------------------------------------------------------------------------
(* Actions *)

(* handleChange on canvas c, with the updateVectorIndex call it makes up   *)
(* to its first await                                                      *)
HandleChange(c) ==
  LET newTextShapes == NewTextShapes(c)
  IN  IF HasChanges(previousShapes, newTextShapes)
      THEN /\ Len(passes) < MaxInFlight
           /\ previousShapes' = newTextShapes
           /\ emitted' = emitted + 1
           /\ passes' = Append(passes, NewPass(newTextShapes))
           /\ overlapSeen' = (overlapSeen \/ passes # <<>>)
      ELSE UNCHANGED <<previousShapes, emitted, passes, overlapSeen>>

Positions == {Vec(x, y) : x \in Xs, y \in Ys}

(* A new shape gets a fresh id (ids are never reused), the text "a" and a   *)
(* place one threshold to the right of the shape created before it.        *)
Birth(k) == Vec(CLUSTER_THRESHOLD * k, 0)

AddShape ==
  \E type \in ShapeTypes, text \in {<<"a">>}, center \in {Birth(created)},
     b \in HasBounds :
    /\ changes < MaxChanges
    /\ changes' = changes + 1
    /\ created' = created + 1
    /\ canvas' = Append(canvas, [id |-> created + 1, type |-> type, text |-> text,
                                 center |-> center, bounds |-> b])
    /\ HandleChange(canvas')
    /\ UNCHANGED <<objects, stored, lastDone, doneAdds, unitVars, queueVars>>

EditText ==
  \E k \in 1..Len(canvas), text \in Texts :
    /\ changes < MaxChanges
    /\ text # canvas[k].text
    /\ changes' = changes + 1
    /\ canvas' = [canvas EXCEPT ![k].text = text]
    /\ HandleChange(canvas')
    /\ UNCHANGED <<objects, stored, lastDone, doneAdds, created, unitVars, queueVars>>

MoveShape ==
  \E k \in 1..Len(canvas), center \in Positions :
    /\ changes < MaxChanges
    /\ center # canvas[k].center
    /\ changes' = changes + 1
    /\ canvas' = [canvas EXCEPT ![k].center = center]
    /\ HandleChange(canvas')
    /\ UNCHANGED <<objects, stored, lastDone, doneAdds, created, unitVars, queueVars>>

DeleteShape ==
  \E k \in 1..Len(canvas) :
    /\ changes < MaxChanges
    /\ changes' = changes + 1
    /\ canvas' = RemoveAt(canvas, k)
    /\ HandleChange(canvas')
    /\ UNCHANGED <<objects, stored, lastDone, doneAdds, created, unitVars, queueVars>>

(* a change notification that comes with no change of the shapes *)
Notify ==
  /\ HandleChange(canvas)
  /\ UNCHANGED <<canvas, objects, stored, lastDone, doneAdds, created, changes,
                 unitVars, queueVars>>

(* getAllObjectsFromIndexedDB resolves; the clusters are built *)
GetAll(i) ==
  /\ passes[i].pc = "getAll"
  /\ passes' = [passes EXCEPT ![i] =
                  Settle([passes[i] EXCEPT !.existingObjects = stored])]
  /\ UNCHANGED <<canvas, previousShapes, emitted, objects, stored, lastDone,
                 doneAdds, overlapSeen, created, changes, unitVars, queueVars>>

(* one `await embeddingIndexRef.current.remove({ id: existing.id })` *)
Remove(i) ==
  LET p == passes[i]
      cluster == Clusters(p.snap)[p.ci]
      existing == ExistingEmbeddings(p.existingObjects, cluster)[p.ri]
      k == FindVectorIndex(existing.id)
  IN  /\ p.pc = "remove"
      /\ \/ /\ k # 0
            /\ objects' = RemoveAt(objects, k)
            /\ passes' = [passes EXCEPT ![i] = Settle([p EXCEPT !.ri = p.ri + 1])]
         \/ /\ k = 0
            /\ objects' = objects
            /\ \/ passes' = [passes EXCEPT ![i] = NextCluster(p, "threw")]
               \/ passes' = [passes EXCEPT ![i] = Settle([p EXCEPT !.ri = p.ri + 1])]
      /\ UNCHANGED <<canvas, previousShapes, emitted, stored, lastDone, doneAdds,
                     overlapSeen, created, changes, unitVars, queueVars>>

(* getEmbeddingWithRetry settles; on success the entry is added *)
Embed(i) ==
  LET p == passes[i]
      cluster == Clusters(p.snap)[p.ci]
  IN  /\ p.pc = "embed"
      /\ \E calls \in ProviderRuns :
           IF getEmbeddingWithRetry(calls, 1, RETRIES).ok
           THEN /\ objects' = Append(objects,
                                 [id |-> FreshId, name |-> CombinedText(cluster),
                                  shapeId |-> cluster.shapes[1].id])
                /\ passes' = [passes EXCEPT ![i] = NextCluster(p, "added")]
           ELSE /\ objects' = objects
                /\ passes' = [passes EXCEPT ![i] = NextCluster(p, "failed")]
      /\ UNCHANGED <<canvas, previousShapes, emitted, stored, lastDone, doneAdds,
                     overlapSeen, created, changes, unitVars, queueVars>>

(* the entries a pass has added: <<shapeId, name>> *)
Adds(p) ==
  {<<Clusters(p.snap)[k].shapes[1].id, CombinedText(Clusters(p.snap)[k])>> :
     k \in {j \in 1..Len(p.log) : p.log[j] = "added"}}

(* saveIndex('indexedDB') resolves: the pass is complete *)
SaveIndex(i) ==
  LET p == passes[i]
  IN  /\ p.pc = "save"
      /\ stored' = objects
      /\ passes' = RemoveAt(passes, i)
      /\ lastDone' = <<p.snap>>
      /\ doneAdds' = doneAdds \cup Adds(p)
      /\ UNCHANGED <<canvas, previousShapes, emitted, objects, overlapSeen,
                     created, changes, unitVars, queueVars>>

(* nothing on the canvas, nothing in the index, no pass in flight *)
AppIdle ==
  /\ canvas = <<>>
  /\ previousShapes = <<>>
  /\ emitted = 0
  /\ passes = <<>>
  /\ objects = <<>>
  /\ stored = <<>>
  /\ lastDone = <<>>
  /\ doneAdds = {}
  /\ overlapSeen = FALSE
  /\ created = 0
  /\ changes = 0

ClIdle == cl = [notes |-> <<>>, done |-> FALSE, clusters |-> <<>>]

GwIdle == gw = [text |-> <<>>, calls |-> <<>>, done |-> FALSE, result |-> <<>>]

NoResult == "pending"

CapIdle ==
  cap = [positions |-> <<>>, pageShapes |-> <<>>, pc |-> "idle",
         focal |-> <<>>, ids |-> {}, exports |-> 0, exportThrew |-> FALSE,
         result |-> NoResult]

ChatIdle ==
  chat = [messages |-> <<>>, searchContext |-> <<>>,
          base64Image |-> [null |-> TRUE, url |-> <<>>],
          apiKey |-> FALSE, pc |-> "idle", sent |-> <<>>, result |-> NoResult]

RelayIdle == relay = [pc |-> "idle"]

UiIdle == ui = [pc |-> "idle"]

HsIdle == hs = [pc |-> "idle"]

MdIdle == md = [pc |-> "idle"]

HandlersIdle == RelayIdle /\ UiIdle /\ HsIdle /\ MdIdle

(* createQueue(), and no call made yet *)
QueueIdle ==
  /\ items = <<>>
  /\ processing = FALSE
  /\ drains = <<>>
  /\ arrived = 0
  /\ dequeued = <<>>

Init ==
  /\ AppIdle
  /\ ClIdle
  /\ GwIdle
  /\ CapIdle
  /\ ChatIdle
  /\ HandlersIdle
  /\ QueueIdle

Next ==
  \/ AddShape
  \/ EditText
  \/ MoveShape
  \/ DeleteShape
  \/ Notify
  \/ \E i \in 1..Len(passes) : GetAll(i)
  \/ \E i \in 1..Len(passes) : Remove(i)
  \/ \E i \in 1..Len(passes) : Embed(i)
  \/ \E i \in 1..Len(passes) : SaveIndex(i)

Spec == Init /\ [][Next]_vars

----------------------------------------------------------------------------
(* The clustering step of updateVectorIndex on its own: a snapshot of up   *)
(* to MaxNotes notes is drawn, and the reduce is run on it, one note (one  *)
(* call of the reduce callback) at a step.                                 *)

MaxNotes == 3

ClusterXs == {0, 100, 120, 199, 200, 201, 300}

ClusterYs == {0, 100, 160}

(* centres on the two axes *)
ClusterPoints ==
  {Vec(x, 0) : x \in ClusterXs} \cup {Vec(0, y) : y \in ClusterYs}

Snapshots ==
  UNION {{[k \in 1..n |-> [id |-> k, text |-> <<"a">>, center |-> f[k]]] :
            f \in [1..n -> ClusterPoints]} : n \in 1..MaxNotes}

ClusterInit ==
  /\ AppIdle
  /\ cl \in {[notes |-> ns, k |-> 0, done |-> FALSE, clusters |-> <<>>] :
               ns \in Snapshots}
  /\ GwIdle
  /\ CapIdle
  /\ ChatIdle
  /\ HandlersIdle
  /\ QueueIdle

RunClusters ==
  /\ ~cl.done
  /\ cl' = [cl EXCEPT !.k = cl.k + 1,
                      !.done = (cl.k + 1 = Len(cl.notes)),
                      !.clusters = ClusterStep(cl.clusters, cl.notes[cl.k + 1])]
  /\ UNCHANGED <<appVars, gw, cap, chat, handlerVars, queueVars>>

ClusterNext == RunClusters

SpecClusters == ClusterInit /\ [][ClusterNext]_vars

----------------------------------------------------------------------------
(* getEmbeddingWithRetry on its own: a text and the outcomes of the        *)
(* provider's calls are drawn, and the function is called.                 *)

GatewayInit ==
  /\ AppIdle
  /\ ClIdle
  /\ gw \in {[text |-> t, calls |-> c, done |-> FALSE, result |-> <<>>] :
               t \in Texts, c \in ProviderRuns}
  /\ CapIdle
  /\ ChatIdle
  /\ HandlersIdle
  /\ QueueIdle

RunGateway ==
  /\ ~gw.done
  /\ gw' = [gw EXCEPT !.done = TRUE,
                      !.result = getEmbeddingWithRetry(gw.calls, 1, RETRIES)]
  /\ UNCHANGED <<appVars, cl, cap, chat, handlerVars, queueVars>>

GatewayNext == RunGateway

SpecGateway == GatewayInit /\ [][GatewayNext]_vars

----------------------------------------------------------------------------
(* updateVectorIndex on its own: one call, on a snapshot of up to          *)
(* MaxPassNotes notes whose texts may be blank, with an index that holds   *)
(* entries made for some of the notes before.                              *)

MaxPassNotes == 3

PassTexts == {<<"a">>, <<" ">>}

PassPoints == {Vec(0, 0), Vec(400, 0)}

PassSnapshots ==
  UNION {{[k \in 1..n |-> [id |-> k, text |-> t[k], center |-> f[k]]] :
            t \in [1..n -> PassTexts], f \in [1..n -> PassPoints]} :
         n \in 1..MaxPassNotes}

(* the entry an earlier pass made for note k *)
EntryOf(k) == [id |-> k, name |-> <<"a">>, shapeId |-> k]

PassIndexes == {<<>>, <<EntryOf(1)>>, <<EntryOf(2)>>, <<EntryOf(1), EntryOf(2)>>}

UpdateInit ==
  /\ canvas = <<>>
  /\ previousShapes = <<>>
  /\ emitted = 0
  /\ objects \in PassIndexes
  /\ stored = objects
  /\ lastDone = <<>>
  /\ doneAdds = {}
  /\ overlapSeen = FALSE
  /\ created = 0
  /\ changes = 0
  /\ ClIdle
  /\ GwIdle
  /\ CapIdle
  /\ ChatIdle
  /\ HandlersIdle
  /\ QueueIdle
  /\ passes \in {<<NewPass(textShapes)>> : textShapes \in PassSnapshots}

UpdateNext ==
  \/ \E i \in 1..Len(passes) : GetAll(i)
  \/ \E i \in 1..Len(passes) : Remove(i)
  \/ \E i \in 1..Len(passes) : Embed(i)
  \/ \E i \in 1..Len(passes) : SaveIndex(i)

SpecUpdate == UpdateInit /\ [][UpdateNext]_vars

----------------------------------------------------------------------------
(* The queue-based revision (src/unnamed/part_003): updateVectorIndex pushes
   each snapshot on indexingQueue and at most one processQueue call drains
   it.  An await is a point where other calls interleave. *)

BATCH_SIZE == 5

MaxArrivals == 3

(* notes far enough apart that each one is a cluster of its own *)
QueueNote(k, t) == [id |-> k, text |-> t, center |-> Vec(400 * (k - 1), 0)]

(* the snapshots that arrive: none, one note, a blank note, two notes, and
   six notes (two batches) of which three have text *)
QueueSnapshots ==
  {<<>>,
   <<QueueNote(1, <<"a">>)>>,
   <<QueueNote(2, <<" ">>)>>,
   <<QueueNote(1, <<"a">>), QueueNote(2, <<"b">>)>>,
   [k \in 1..6 |-> QueueNote(k, IF k \in {1, 3, 6} THEN <<"a">> ELSE <<" ">>)]}

(* the check of the processing flag at the head of updateVectorIndex *)
BusyNever == FALSE
Busy == processing

(* Promise.all over clusters.slice(i, i + BATCH_SIZE): the clusters with
   text have an embedding request outstanding *)
StartBatchAll(seq, clusters, i) ==
  [seq |-> seq, cur |-> clusters, i |-> i,
   pending |-> {k \in i..Len(clusters) : CombinedText(clusters[k]) # <<>>},
   pc |-> "batch"]
StartBatch(seq, clusters, i) ==
  [seq |-> seq, cur |-> clusters, i |-> i,
   pending |-> {k \in i..(i + BATCH_SIZE - 1) :
                  k <= Len(clusters) /\ CombinedText(clusters[k]) # <<>>},
   pc |-> "batch"]

(* the loop ends at the first snapshot without clusters *)
RECURSIVE processQueueUntilEmpty(_, _)
processQueueUntilEmpty(its, dq) ==
  IF its = <<>>
  THEN [items |-> <<>>, dequeued |-> dq, drain |-> <<>>]
  ELSE LET currentShapes == Head(its)
           clusters == Clusters(currentShapes.snap)
       IN  IF Len(clusters) = 0
           THEN [items |-> Tail(its),
                 dequeued |-> Append(dq, currentShapes.seq), drain |-> <<>>]
           ELSE [items |-> Tail(its),
                 dequeued |-> Append(dq, currentShapes.seq),
                 drain |-> <<StartBatch(currentShapes.seq, clusters, 1)>>]

(* processQueue from the test of its while loop to its next await: shifts
   snapshots off the queue, passing over those without clusters *)
RECURSIVE processQueue(_, _)
processQueue(its, dq) ==
  IF its = <<>>
  THEN [items |-> <<>>, dequeued |-> dq, drain |-> <<>>]
  ELSE LET currentShapes == Head(its)
           clusters == Clusters(currentShapes.snap)
       IN  IF Len(clusters) = 0
           THEN processQueue(Tail(its), Append(dq, currentShapes.seq))
           ELSE [items |-> Tail(its),
                 dequeued |-> Append(dq, currentShapes.seq),
                 drain |-> <<StartBatch(currentShapes.seq, clusters, 1)>>]

(* updateVectorIndex(textShapes): push, and start processQueue unless one
   is running *)
EnqueueFrom(snapshots, limit) ==
  /\ arrived < limit
  /\ \E textShapes \in snapshots :
       LET pushed == Append(items, [seq |-> arrived + 1, snap |-> textShapes])
           r == processQueue(pushed, dequeued)
       IN  /\ arrived' = arrived + 1
           /\ IF Busy
              THEN /\ items' = pushed
                   /\ UNCHANGED <<processing, drains, dequeued>>
              ELSE /\ items' = r.items
                   /\ dequeued' = r.dequeued
                   /\ drains' = drains \o r.drain
                   /\ processing' = (r.drain # <<>>)
  /\ UNCHANGED <<appVars, unitVars>>

(* the entry takes the place of the entries with its shapeId *)
EmbedClusterReplaces(d, k) ==
  LET cluster == drains[d].cur[k]
  IN  /\ drains[d].pc = "batch"
      /\ k \in drains[d].pending
      /\ \E calls \in ProviderRuns :
           IF getEmbeddingWithRetry(calls, 1, RETRIES).ok
           THEN objects' = Append(SelectSeq(objects,
                                      LAMBDA e : e.shapeId # cluster.shapes[1].id),
                             [id |-> FreshId, name |-> CombinedText(cluster),
                              shapeId |-> cluster.shapes[1].id,
                              position |-> cluster.center])
           ELSE objects' = objects
      /\ drains' = [drains EXCEPT ![d].pending = @ \ {k}]
      /\ UNCHANGED <<canvas, previousShapes, emitted, passes, stored, lastDone,
                     doneAdds, overlapSeen, created, changes, unitVars,
                     items, processing, arrived, dequeued>>

(* one cluster of the batch: its embedding arrives and the entry is added,
   or the request fails and the failure is logged *)
EmbedCluster(d, k) ==
  LET cluster == drains[d].cur[k]
  IN  /\ drains[d].pc = "batch"
      /\ k \in drains[d].pending
      /\ \E calls \in ProviderRuns :
           IF getEmbeddingWithRetry(calls, 1, RETRIES).ok
           THEN objects' = Append(objects,
                             [id |-> FreshId, name |-> CombinedText(cluster),
                              shapeId |-> cluster.shapes[1].id,
                              position |-> cluster.center])
           ELSE objects' = objects
      /\ drains' = [drains EXCEPT ![d].pending = @ \ {k}]
      /\ UNCHANGED <<canvas, previousShapes, emitted, passes, stored, lastDone,
                     doneAdds, overlapSeen, created, changes, unitVars,
                     items, processing, arrived, dequeued>>

(* Promise.all resolves: the next batch, or saveIndex after the last one *)
BatchDone(d) ==
  /\ drains[d].pc = "batch"
  /\ drains[d].pending = {}
  /\ drains' = [drains EXCEPT ![d] =
                  IF @.i + BATCH_SIZE <= Len(@.cur)
                  THEN StartBatch(@.seq, @.cur, @.i + BATCH_SIZE)
                  ELSE [@ EXCEPT !.pc = "save"]]
  /\ UNCHANGED <<appVars, unitVars, items, processing, arrived, dequeued>>

(* a rejection of saveIndex ends processQueue and nothing resets the flag *)
SaveSettlesNoCatch(d, outcomes) ==
  /\ drains[d].pc = "save"
  /\ \E ok \in outcomes :
       LET r == processQueue(items, dequeued)
       IN  IF ok
           THEN /\ stored' = objects
                /\ items' = r.items
                /\ dequeued' = r.dequeued
                /\ drains' = SubSeq(drains, 1, d - 1) \o r.drain
                               \o SubSeq(drains, d + 1, Len(drains))
                /\ processing' = IF r.drain = <<>> THEN FALSE ELSE processing
           ELSE /\ drains' = RemoveAt(drains, d)
                /\ UNCHANGED <<processing, stored, items, dequeued>>
  /\ UNCHANGED <<canvas, previousShapes, emitted, passes, objects, lastDone,
                 doneAdds, overlapSeen, created, changes, unitVars, arrived>>

(* saveIndex('indexedDB') settles: the loop goes on with the next snapshot,
   or the rejection ends processQueue and the catch resets the flag *)
SaveSettles(d, outcomes) ==
  /\ drains[d].pc = "save"
  /\ \E ok \in outcomes :
       LET r == processQueue(items, dequeued)
       IN  IF ok
           THEN /\ stored' = objects
                /\ items' = r.items
                /\ dequeued' = r.dequeued
                /\ drains' = SubSeq(drains, 1, d - 1) \o r.drain
                               \o SubSeq(drains, d + 1, Len(drains))
                /\ processing' = IF r.drain = <<>> THEN FALSE ELSE processing
           ELSE /\ drains' = RemoveAt(drains, d)
                /\ processing' = FALSE
                /\ UNCHANGED <<stored, items, dequeued>>
  /\ UNCHANGED <<canvas, previousShapes, emitted, passes, objects, lastDone,
                 doneAdds, overlapSeen, created, changes, unitVars, arrived>>

SaveDone(d) == SaveSettles(d, BOOLEAN)

Enqueue == EnqueueFrom(QueueSnapshots, MaxArrivals)

QueueNext ==
  \/ Enqueue
  \/ \E d \in 1..Len(drains) : \E k \in drains[d].pending : EmbedCluster(d, k)
  \/ \E d \in 1..Len(drains) : BatchDone(d)
  \/ \E d \in 1..Len(drains) : SaveDone(d)

SpecQueue == Init /\ [][QueueNext]_vars

(* the same queue handling one snapshot whose notes all have text: a full
   batch of five clusters and then the rest *)
FullNotes == 6

FullSnapshots == {[k \in 1..FullNotes |-> QueueNote(k, <<"a">>)]}

EnqueueFull == EnqueueFrom(FullSnapshots, 1)

BatchNext ==
  \/ EnqueueFull
  \/ \E d \in 1..Len(drains) : \E k \in drains[d].pending : EmbedCluster(d, k)
  \/ \E d \in 1..Len(drains) : BatchDone(d)
  \/ \E d \in 1..Len(drains) : SaveDone(d)

SpecBatch == Init /\ [][BatchNext]_vars

(* the queue with a saveIndex that never fails.  Each await of processQueue
   settles: an embedding request ends after at most 1 + RETRIES provider
   calls, Promise.all resolves when its requests have settled, and
   saveIndex resolves; arrivals are up to the user and may stop at any
   time. *)
SaveResolves(d) == SaveSettles(d, {TRUE})

LiveNext ==
  \/ Enqueue
  \/ \E d \in 1..Len(drains) : \E k \in drains[d].pending : EmbedCluster(d, k)
  \/ \E d \in 1..Len(drains) : BatchDone(d)
  \/ \E d \in 1..Len(drains) : SaveResolves(d)

AwaitsSettle ==
  /\ WF_vars(\E d \in 1..Len(drains) :
               \E k \in drains[d].pending : EmbedCluster(d, k))
  /\ WF_vars(\E d \in 1..Len(drains) : BatchDone(d))
  /\ WF_vars(\E d \in 1..Len(drains) : SaveResolves(d))

SpecQueueLive == Init /\ [][LiveNext]_vars /\ AwaitsSettle

----------------------------------------------------------------------------
(* captureAreaAroundShapes on its own: the positions of the relevant shapes
   and the shapes of the current page are the inputs; exportToBlob and the
   FileReader are awaited, and each of them can fail. *)

SCREENSHOT_WIDTH == 2560

SCREENSHOT_HEIGHT == 1440

MaxPositions == 3

CapXs == {0, 10, 20}

CapYs == {0, 10}

CapPositions ==
  UNION {[1..n -> [x : CapXs, y : CapYs]] : n \in 0..MaxPositions}

(* new Box(x, y, w, h) *)
Box(x, y, w, h) == [minX |-> x, minY |-> y, maxX |-> x + w, maxY |-> y + h]

(* the shapes a page can hold: inside every region, across the right edge
   of every region, far outside, without masked page bounds, and one whose
   right edge is at 1280 *)
AllPageShapes ==
  {[id |-> 1, bounds |-> <<Box(0, 0, 100, 100)>>],
   [id |-> 2, bounds |-> <<Box(1250, 0, 100, 100)>>],
   [id |-> 3, bounds |-> <<Box(5000, 0, 100, 100)>>],
   [id |-> 4, bounds |-> <<>>],
   [id |-> 5, bounds |-> <<Box(1180, 0, 100, 100)>>]}

(* [...positions].sort((a, b) => a.x - b.x), and the same for y: a stable
   sort, ascending in one coordinate *)
Key(p, axis) == IF axis = "x" THEN p.x ELSE p.y

RECURSIVE Insert(_, _, _)
Insert(sorted, p, axis) ==
  IF sorted = <<>> THEN <<p>>
  ELSE IF Key(p, axis) < Key(Head(sorted), axis) THEN <<p>> \o sorted
  ELSE <<Head(sorted)>> \o Insert(Tail(sorted), p, axis)

RECURSIVE SortBy(_, _)
SortBy(positions, axis) ==
  IF positions = <<>> THEN <<>>
  ELSE Insert(SortBy(SubSeq(positions, 1, Len(positions) - 1), axis),
              positions[Len(positions)], axis)

(* medianX and medianY: the element at index floor(length / 2) of each
   sorted copy (indices from 0) *)
FocalPointLowerMiddle(positions) ==
  [x |-> SortBy(positions, "x")[((Len(positions) - 1) \div 2) + 1].x,
   y |-> SortBy(positions, "y")[((Len(positions) - 1) \div 2) + 1].y]
FocalPointOfOneNote(positions) ==
  LET p == SortBy(positions, "x")[(Len(positions) \div 2) + 1]
  IN  [x |-> p.x, y |-> p.y]
FocalPoint(positions) ==
  [x |-> SortBy(positions, "x")[(Len(positions) \div 2) + 1].x,
   y |-> SortBy(positions, "y")[(Len(positions) \div 2) + 1].y]

(* new Vec(medianX, medianY) of handleChat: Array.prototype.sort sorts
   relevantShapes in place and returns it, so the sort by y works on the
   list the sort by x left *)
CenterPointOneSort(relevantShapes) ==
  LET byX == SortBy(relevantShapes, "x")
  IN  [sorted |-> byX,
       point |-> [x |-> byX[(Len(relevantShapes) \div 2) + 1].x,
                  y |-> byX[(Len(relevantShapes) \div 2) + 1].y]]
CenterPoint(relevantShapes) ==
  LET byX == SortBy(relevantShapes, "x")
      byY == SortBy(byX, "y")
  IN  [sorted |-> byY,
       point |-> [x |-> byX[(Len(relevantShapes) \div 2) + 1].x,
                  y |-> byY[(Len(relevantShapes) \div 2) + 1].y]]

(* the fixed-size box centred on the median position *)
Region(focal) ==
  Box(focal.x - SCREENSHOT_WIDTH \div 2, focal.y - SCREENSHOT_HEIGHT \div 2,
      SCREENSHOT_WIDTH, SCREENSHOT_HEIGHT)

(* tldraw's Box: includes(B) is Box.Collides(A, B) || Box.Contains(A, B) *)
BoxCollides(A, B) ==
  ~(A.maxX < B.minX \/ A.minX > B.maxX \/ A.maxY < B.minY \/ A.minY > B.maxY)

BoxContains(A, B) ==
  A.minX < B.minX /\ A.minY < B.minY /\ A.maxY > B.maxY /\ A.maxX > B.maxX

BoxIncludes(A, B) == BoxCollides(A, B) \/ BoxContains(A, B)

(* getCurrentPageShapes().filter(...) *)
ShapesInBox(pageShapes, box) ==
  {s \in pageShapes : s.bounds # <<>> /\ BoxIncludes(box, s.bounds[1])}

CaptureInit ==
  /\ AppIdle
  /\ ClIdle
  /\ GwIdle
  /\ cap \in {[positions |-> ps, pageShapes |-> sh, pc |-> "call",
               focal |-> <<>>, ids |-> {}, exports |-> 0,
               exportThrew |-> FALSE, result |-> NoResult] :
                ps \in CapPositions, sh \in SUBSET AllPageShapes}
  /\ ChatIdle
  /\ HandlersIdle
  /\ QueueIdle

(* the call up to its first await: the guard, the median, the box, the
   filter, and the call of exportToBlob *)
CaptureStart ==
  /\ cap.pc = "call"
  /\ IF Len(cap.positions) = 0
     THEN cap' = [cap EXCEPT !.pc = "done", !.result = "null"]
     ELSE LET focal == FocalPoint(cap.positions)
              shapesInBox == ShapesInBox(cap.pageShapes, Region(focal))
          IN  IF shapesInBox = {}
              THEN cap' = [cap EXCEPT !.pc = "done", !.result = "null",
                                      !.focal = <<focal>>]
              ELSE cap' = [cap EXCEPT !.pc = "export", !.focal = <<focal>>,
                                      !.ids = {s.id : s \in shapesInBox},
                                      !.exports = 1]
  /\ UNCHANGED <<appVars, cl, gw, chat, handlerVars, queueVars>>

(* exportToBlob resolves, or throws into the catch, which returns null *)
ExportDone ==
  /\ cap.pc = "export"
  /\ \E ok \in BOOLEAN :
       cap' = IF ok THEN [cap EXCEPT !.pc = "read"]
              ELSE [cap EXCEPT !.pc = "done", !.exportThrew = TRUE,
                               !.result = "null"]
  /\ UNCHANGED <<appVars, cl, gw, chat, handlerVars, queueVars>>

(* the promise around the FileReader, returned without await: onloadend
   resolves it with the data URL, onerror rejects it and with it the call *)
ReadDone ==
  /\ cap.pc = "read"
  /\ \E ok \in BOOLEAN :
       cap' = [cap EXCEPT !.pc = "done",
                          !.result = IF ok THEN "image" ELSE "rejected"]
  /\ UNCHANGED <<appVars, cl, gw, chat, handlerVars, queueVars>>

CaptureNext ==
  \/ CaptureStart
  \/ ExportDone
  \/ ReadDone

SpecCapture == CaptureInit /\ [][CaptureNext]_vars

----------------------------------------------------------------------------
(* generateChatResponse on its own (the POST handler of api/chat/route.ts
   builds the same list): the history, the search context and the image
   are the inputs; the provider's call is awaited and can fail. *)

MaxHistory == 2

ChatMessages == [role : {"user", "assistant"}, content : {<<"q">>, <<"r">>}]

Histories == UNION {[1..n -> ChatMessages] : n \in 0..MaxHistory}

Contexts == {<<>>, <<"c">>}

(* base64Image: null, the empty string, or a data URL *)
Images ==
  {[null |-> TRUE, url |-> <<>>], [null |-> FALSE, url |-> <<>>],
   [null |-> FALSE, url |-> <<"d">>]}

(* if (base64Image): neither null nor the empty string *)
Truthy(base64Image) == ~base64Image.null /\ base64Image.url # <<>>

(* the template string of the first message *)
Framing(searchContext) == <<"framing">> \o searchContext

(* "Here is the relevant section of the whiteboard:" + searchContext *)
ImageLabel(searchContext) == <<"label">> \o searchContext

(* the three pushes onto formattedMessages *)
FormattedMessagesImageFirst(messages, searchContext, base64Image) ==
  <<[role |-> "user", content |-> Framing(searchContext)]>>
  \o (IF Truthy(base64Image)
      THEN <<[role |-> "user",
              content |-> <<[type |-> "text",
                             text |-> ImageLabel(searchContext)],
                            [type |-> "image_url",
                             url |-> base64Image.url]>>]>>
      ELSE <<>>)
  \o [i \in 1..Len(messages) |->
        [role |-> messages[i].role, content |-> messages[i].content]]
FormattedMessages(messages, searchContext, base64Image) ==
  <<[role |-> "user", content |-> Framing(searchContext)]>>
  \o [i \in 1..Len(messages) |->
        [role |-> messages[i].role, content |-> messages[i].content]]
  \o (IF Truthy(base64Image)
      THEN <<[role |-> "user",
              content |-> <<[type |-> "text",
                             text |-> ImageLabel(searchContext)],
                            [type |-> "image_url",
                             url |-> base64Image.url]>>]>>
      ELSE <<>>)

ChatInit ==
  /\ AppIdle
  /\ ClIdle
  /\ GwIdle
  /\ CapIdle
  /\ chat \in {[messages |-> h, searchContext |-> c, base64Image |-> img,
                apiKey |-> k, pc |-> "call", sent |-> <<>>,
                result |-> NoResult] :
                 h \in Histories, c \in Contexts, img \in Images,
                 k \in BOOLEAN}
  /\ HandlersIdle
  /\ QueueIdle

(* the call up to its await: without an API key it throws, otherwise it
   builds the list and sends it *)
SendChat ==
  /\ chat.pc = "call"
  /\ chat' = IF ~chat.apiKey
             THEN [chat EXCEPT !.pc = "done", !.result = "threw"]
             ELSE [chat EXCEPT !.pc = "await",
                               !.sent = FormattedMessages(chat.messages,
                                          chat.searchContext,
                                          chat.base64Image)]
  /\ UNCHANGED <<appVars, cl, gw, cap, handlerVars, queueVars>>

(* the completion arrives, or the call fails and the error is rethrown *)
ChatDone ==
  /\ chat.pc = "await"
  /\ \E ok \in BOOLEAN :
       chat' = [chat EXCEPT !.pc = "done",
                            !.result = IF ok THEN "reply" ELSE "threw"]
  /\ UNCHANGED <<appVars, cl, gw, cap, handlerVars, queueVars>>

ChatNext ==
  \/ SendChat
  \/ ChatDone

SpecChat == ChatInit /\ [][ChatNext]_vars

----------------------------------------------------------------------------
(* POST of api/chat/route.ts on its own: the request body is the input; the
   body is parsed, the list of messages is built and the provider's call is
   awaited; every exception ends in the catch, which answers with 500. *)

(* a field of the body: absent (<<>>) or present (<<value>>) *)
Optional(values) == {<<>>} \cup {<<v>> : v \in values}

(* `${searchContext}` in the template string: undefined reads "undefined" *)
Interpolate(field) == IF field = <<>> THEN <<"undefined">> ELSE field[1]

(* what the provider's call does: it throws, or it returns a first choice
   with text, no choice at all, or a first choice with empty content *)
ProviderOutcomes == {"throws", "text", "none", "blank"}

(* completion.choices[0]?.message?.content || 'No response generated' *)
ContentOf(outcome) ==
  IF outcome = "text" THEN <<"r">> ELSE <<"No response generated">>

RelayInit ==
  /\ AppIdle
  /\ ClIdle
  /\ GwIdle
  /\ CapIdle
  /\ ChatIdle
  /\ relay \in {[json |-> j, messages |-> m, searchContext |-> c,
                 base64Image |-> img, pc |-> "call", sent |-> <<>>,
                 outcome |-> "pending", status |-> 0, body |-> <<>>] :
                  j \in BOOLEAN, m \in Optional(Histories),
                  c \in Optional(Contexts), img \in Images}
  /\ UiIdle
  /\ HsIdle
  /\ MdIdle
  /\ QueueIdle

(* request.json() and the three pushes, up to the await of create: a body
   that does not parse, or one without messages (messages.map on
   undefined), throws into the catch *)
Post ==
  /\ relay.pc = "call"
  /\ relay' =
       IF ~relay.json \/ relay.messages = <<>>
       THEN [relay EXCEPT !.pc = "done", !.status = 500,
                          !.body = [error |-> <<"message">>]]
       ELSE [relay EXCEPT !.pc = "await",
                          !.sent = FormattedMessages(relay.messages[1],
                                     Interpolate(relay.searchContext),
                                     relay.base64Image)]
  /\ UNCHANGED <<appVars, pureVars, ui, hs, md, queueVars>>

(* the provider's call settles: NextResponse.json({content}), or the catch *)
PostDone ==
  /\ relay.pc = "await"
  /\ \E outcome \in ProviderOutcomes :
       relay' =
         IF outcome = "throws"
         THEN [relay EXCEPT !.pc = "done", !.outcome = outcome,
                            !.status = 500,
                            !.body = [error |-> <<"message">>]]
         ELSE [relay EXCEPT !.pc = "done", !.outcome = outcome,
                            !.status = 200,
                            !.body = [content |-> ContentOf(outcome)]]
  /\ UNCHANGED <<appVars, pureVars, ui, hs, md, queueVars>>

RelayNext ==
  \/ Post
  \/ PostDone

SpecRelay == RelayInit /\ [][RelayNext]_vars

----------------------------------------------------------------------------
(* handleChat: the chat panel's conversation and input, the settings' API
   key, the shapes now on the canvas and the entries of the index are the
   state; each await of a call is a point where the user types, deletes a
   shape or submits again. *)

MaxSubmits == 2

UiInputs == {<<>>, <<" ">>, <<"q">>}

KeyMessage ==
  [role |-> "assistant",
   content |-> <<"Please set your GROQ API key in settings first.">>]

Apology ==
  [role |-> "assistant",
   content |-> <<"Sorry, there was an error processing your message.">>]

(* the entries of the index: each keeps the text and the position its
   cluster had when it was indexed *)
UiEntry(k) ==
  [id |-> k, name |-> <<"n", k>>, shapeId |-> k,
   position |-> [x |-> 400 * k, y |-> 0]]

UiIndexes == {<<>>, <<UiEntry(1)>>, <<UiEntry(1), UiEntry(2)>>}

(* the shapes of the canvas: shape 1 where it was indexed, moved, without
   page bounds, or gone; shape 2 moved and with its text emptied, or gone *)
UiCanvases ==
  {s1 \cup s2 :
     s1 \in {{}, {[id |-> 1, text |-> <<"t">>,
                   bounds |-> <<[x |-> 400, y |-> 0]>>]},
                 {[id |-> 1, text |-> <<"t">>,
                   bounds |-> <<[x |-> 0, y |-> 20]>>]},
                 {[id |-> 1, text |-> <<"t">>, bounds |-> <<>>]}},
     s2 \in {{}, {[id |-> 2, text |-> <<>>,
                   bounds |-> <<[x |-> 10, y |-> 0]>>]}}}

(* editor.getShape(shapeId): <<>> when there is no such shape *)
GetShape(shapes, shapeId) ==
  LET found == {s \in shapes : s.id = shapeId}
  IN  IF found = {} THEN <<>> ELSE <<CHOOSE s \in found : TRUE>>

(* the rankings a search can return: every entry, in some order *)
Rankings(index) ==
  {r \in [1..Len(index) -> Range(index)] :
     \A i, j \in 1..Len(index) : i # j => r[i] # r[j]}

(* searchContext: for each result the entry's id and the shape's text, or
   the entry's name when the shape is gone or its text is empty *)
SearchContext(shapes, results) ==
  [k \in 1..Len(results) |->
     LET shape == GetShape(shapes, results[k].shapeId)
         text == IF shape # <<>> THEN shape[1].text ELSE <<>>
     IN  [id |-> results[k].id,
          text |-> IF text # <<>> THEN text ELSE results[k].name]]

(* relevantShapes: the results whose shape exists and has page bounds, each
   with the centre of its bounds *)
RelevantPositionsFromIndex(shapes, results) ==
  [k \in 1..Len(results) |-> results[k].position]
RelevantPositions(shapes, results) ==
  LET kept == SelectSeq(results,
                LAMBDA r : /\ GetShape(shapes, r.shapeId) # <<>>
                           /\ GetShape(shapes, r.shapeId)[1].bounds # <<>>)
  IN  [k \in 1..Len(kept) |-> GetShape(shapes, kept[k].shapeId)[1].bounds[1]]

(* the call with number n, and the calls without it *)
CallOf(u, n) == CHOOSE c \in Range(u.calls) : c.n = n

Without(u, n) == SelectSeq(u.calls, LAMBDA c : c.n # n)

Replace(u, call) ==
  [k \in 1..Len(u.calls) |-> IF u.calls[k].n = call.n THEN call ELSE u.calls[k]]

(* the catch of handleChat: the apology is appended and the call is over *)
ApologizeAndForget(u, n) ==
  [u EXCEPT !.messages = SubSeq(@, 2, Len(@)) \o <<Apology>>,
            !.calls = Without(u, n), !.errors = @ + 1]
Apologize(u, n) ==
  [u EXCEPT !.messages = Append(@, Apology), !.calls = Without(u, n),
            !.errors = @ + 1]

(* the user's message is appended and generateChatResponse is called with
   the messages of the call's closure, the context and the screenshot *)
AskProvider(u, call, screenshot) ==
  LET userMessage == [role |-> "user", content |-> call.input]
      asked == [call EXCEPT !.pc = "chat",
                            !.sent = FormattedMessages(
                                       Append(call.history, userMessage),
                                       call.context, screenshot)]
  IN  [u EXCEPT !.messages = Append(@, userMessage),
                !.calls = Replace(u, asked),
                !.chats = @ + 1]

UiInit ==
  /\ AppIdle
  /\ ClIdle
  /\ GwIdle
  /\ CapIdle
  /\ ChatIdle
  /\ RelayIdle
  /\ ui \in {[messages |-> <<>>, chatInput |-> <<>>, apiKey |-> k,
              shapes |-> sh, index |-> ix, calls |-> <<>>, submits |-> 0,
              embeds |-> 0, searches |-> 0, captures |-> 0, chats |-> 0,
              errors |-> 0,
              centered |-> <<>>, screenshot |-> <<>>, pc |-> "mounted"] :
               k \in BOOLEAN, sh \in UiCanvases, ix \in UiIndexes}
  /\ HsIdle
  /\ MdIdle
  /\ QueueIdle

(* the user edits the chat input *)
TypeInput ==
  /\ \E text \in UiInputs \ {ui.chatInput} :
       ui' = [ui EXCEPT !.chatInput = text]
  /\ UNCHANGED <<appVars, pureVars, relay, hs, md, queueVars>>

(* the user deletes a shape from the canvas *)
DeleteUiShape ==
  /\ \E s \in ui.shapes : ui' = [ui EXCEPT !.shapes = @ \ {s}]
  /\ UNCHANGED <<appVars, pureVars, relay, hs, md, queueVars>>

(* if (!settings.groqApiKey) *)
KeyMissingNever(u) == FALSE
KeyMissing(u) == ~u.apiKey

(* the form is submitted: handleChat up to its first await *)
SubmitChat ==
  /\ ui.submits < MaxSubmits
  /\ LET n == ui.submits + 1
         u == [ui EXCEPT !.submits = n]
     IN  ui' = IF Trim(ui.chatInput) = <<>> THEN u
               ELSE IF KeyMissing(ui)
               THEN [u EXCEPT !.messages = Append(@, KeyMessage)]
               ELSE [u EXCEPT !.embeds = @ + 1,
                              !.calls = Append(@,
                                [n |-> n, pc |-> "embed",
                                 history |-> ui.messages,
                                 input |-> ui.chatInput, results |-> <<>>,
                                 context |-> <<>>, positions |-> <<>>,
                                 sent |-> <<>>])]
  /\ UNCHANGED <<appVars, pureVars, relay, hs, md, queueVars>>

(* getEmbeddingWithRetry(chatInput) settles: the search is started, or the
   error goes to the catch *)
ChatEmbedSettles(n) ==
  /\ CallOf(ui, n).pc = "embed"
  /\ \E calls \in ProviderRuns :
       ui' = IF getEmbeddingWithRetry(calls, 1, RETRIES).ok
             THEN [ui EXCEPT !.searches = @ + 1,
                             !.calls = Replace(ui, [CallOf(ui, n) EXCEPT
                                                      !.pc = "search"])]
             ELSE Apologize(ui, n)
  /\ UNCHANGED <<appVars, pureVars, relay, hs, md, queueVars>>

(* the search settles: the context and the relevant shapes are read from
   the canvas as it is now; with relevant shapes the capture is awaited,
   without them the provider is asked at once *)
ChatSearchSettles(n) ==
  /\ CallOf(ui, n).pc = "search"
  /\ \/ ui' = Apologize(ui, n)
     \/ \E results \in Rankings(ui.index) :
          LET positions == RelevantPositions(ui.shapes, results)
              call == [CallOf(ui, n) EXCEPT
                         !.results = results,
                         !.context = SearchContext(ui.shapes, results),
                         !.positions = positions]
          IN  ui' = IF Len(positions) > 0
                    THEN [ui EXCEPT !.captures = @ + 1,
                                    !.calls = Replace(ui, [call EXCEPT
                                                             !.pc = "capture"])]
                    ELSE AskProvider([ui EXCEPT !.screenshot = <<>>], call,
                                     [null |-> TRUE, url |-> <<>>])
  /\ UNCHANGED <<appVars, pureVars, relay, hs, md, queueVars>>

(* captureAreaAroundShapes settles with a data URL, with null, or with a
   rejection; the view is centred on the median of the positions *)
ChatCaptureSettles(n) ==
  /\ CallOf(ui, n).pc = "capture"
  /\ \/ ui' = Apologize(ui, n)
     \/ \E screenshot \in {[null |-> TRUE, url |-> <<>>],
                           [null |-> FALSE, url |-> <<"d">>]} :
          ui' = AskProvider(
                  [ui EXCEPT !.screenshot = <<screenshot>>,
                             !.centered =
                               <<CenterPoint(CallOf(ui, n).positions).point>>],
                  CallOf(ui, n), screenshot)
  /\ UNCHANGED <<appVars, pureVars, relay, hs, md, queueVars>>

(* generateChatResponse settles: the reply is appended and the input is
   cleared, or the rethrown error goes to the catch *)
ChatReplySettles(n) ==
  /\ CallOf(ui, n).pc = "chat"
  /\ \E outcome \in ProviderOutcomes :
       ui' = IF outcome = "throws" THEN Apologize(ui, n)
             ELSE [ui EXCEPT !.messages =
                               Append(@, [role |-> "assistant",
                                          content |-> ContentOf(outcome)]),
                             !.chatInput = <<>>,
                             !.calls = Without(ui, n)]
  /\ UNCHANGED <<appVars, pureVars, relay, hs, md, queueVars>>

UiNext ==
  \/ TypeInput
  \/ DeleteUiShape
  \/ SubmitChat
  \/ \E c \in Range(ui.calls) : ChatEmbedSettles(c.n)
  \/ \E c \in Range(ui.calls) : ChatSearchSettles(c.n)
  \/ \E c \in Range(ui.calls) : ChatCaptureSettles(c.n)
  \/ \E c \in Range(ui.calls) : ChatReplySettles(c.n)

SpecUi == UiInit /\ [][UiNext]_vars

----------------------------------------------------------------------------
(* handleSearch: the query, the result list, the shapes of the canvas and
   the entries of the index are the state; the view's centre and the
   selection record the navigation. *)

MaxSearches == 2

(* the catch of handleSearch: the result list is emptied, the call is over *)
SearchFailedKeepsResults(h, n) ==
  [h EXCEPT !.calls = SelectSeq(@, LAMBDA c : c.n # n), !.errors = @ + 1]
SearchFailed(h, n) ==
  [h EXCEPT !.results = <<>>,
            !.calls = SelectSeq(@, LAMBDA c : c.n # n), !.errors = @ + 1]

SearchInit ==
  /\ AppIdle
  /\ ClIdle
  /\ GwIdle
  /\ CapIdle
  /\ ChatIdle
  /\ RelayIdle
  /\ UiIdle
  /\ MdIdle
  /\ hs \in {[query |-> <<>>, results |-> <<>>, shapes |-> sh, index |-> ix,
              calls |-> <<>>, submits |-> 0, embeds |-> 0, searches |-> 0,
              errors |-> 0, centered |-> <<>>, selected |-> <<>>,
              pc |-> "mounted"] :
               sh \in UiCanvases, ix \in UiIndexes}
  /\ QueueIdle

(* the user edits the query *)
TypeQuery ==
  /\ \E text \in UiInputs \ {hs.query} : hs' = [hs EXCEPT !.query = text]
  /\ UNCHANGED <<appVars, pureVars, relay, ui, md, queueVars>>

(* the user deletes a shape from the canvas *)
DeleteSearchedShape ==
  /\ \E s \in hs.shapes : hs' = [hs EXCEPT !.shapes = @ \ {s}]
  /\ UNCHANGED <<appVars, pureVars, relay, ui, md, queueVars>>

(* handleSearch up to its first await: nothing for a blank query *)
SubmitSearch ==
  /\ hs.submits < MaxSearches
  /\ LET n == hs.submits + 1
         h == [hs EXCEPT !.submits = n]
     IN  hs' = IF Trim(hs.query) = <<>> THEN h
               ELSE [h EXCEPT !.embeds = @ + 1,
                              !.calls = Append(@, [n |-> n, pc |-> "embed"])]
  /\ UNCHANGED <<appVars, pureVars, relay, ui, md, queueVars>>

(* getEmbeddingWithRetry(query) settles *)
SearchEmbedSettles(n) ==
  /\ CallOf(hs, n).pc = "embed"
  /\ \E calls \in ProviderRuns :
       hs' = IF getEmbeddingWithRetry(calls, 1, RETRIES).ok
             THEN [hs EXCEPT !.searches = @ + 1,
                             !.calls = Replace(hs, [n |-> n, pc |-> "search"])]
             ELSE SearchFailed(hs, n)
  /\ UNCHANGED <<appVars, pureVars, relay, ui, md, queueVars>>

(* the search settles: the results are shown and, when the top result's
   shape is on the canvas with bounds, the view is centred on it and it is
   selected *)
SearchSettles(n) ==
  /\ CallOf(hs, n).pc = "search"
  /\ \/ hs' = SearchFailed(hs, n)
     \/ \E typedResults \in Rankings(hs.index) :
          LET shape == IF typedResults = <<>> THEN <<>>
                       ELSE GetShape(hs.shapes, typedResults[1].shapeId)
              shown == [hs EXCEPT !.results = typedResults,
                                  !.calls = Without(hs, n)]
          IN  hs' = IF shape # <<>> /\ shape[1].bounds # <<>>
                    THEN [shown EXCEPT !.centered = shape[1].bounds,
                                       !.selected = <<shape[1].id>>]
                    ELSE shown
  /\ UNCHANGED <<appVars, pureVars, relay, ui, md, queueVars>>

SearchNext ==
  \/ TypeQuery
  \/ DeleteSearchedShape
  \/ SubmitSearch
  \/ \E c \in Range(hs.calls) : SearchEmbedSettles(c.n)
  \/ \E c \in Range(hs.calls) : SearchSettles(c.n)

SpecSearch == SearchInit /\ [][SearchNext]_vars

----------------------------------------------------------------------------
(* The combined text of each cluster, on its own: a snapshot of notes with
   texts that have spaces at their ends or inside is clustered, and then
   the text of every cluster is built as updateVectorIndex builds it. *)

MaxCombined == 3

CombineTexts ==
  {<<"a">>, <<" ", "b", " ">>, <<" ">>, <<"c", " ", "d">>}

CombinePoints == {Vec(0, 0), Vec(100, 0), Vec(400, 0)}

CombineSnapshots ==
  UNION {{[k \in 1..n |-> [id |-> k, text |-> t[k], center |-> f[k]]] :
            t \in [1..n -> CombineTexts], f \in [1..n -> CombinePoints]} :
         n \in 1..MaxCombined}

CombineInit ==
  /\ AppIdle
  /\ cl \in {[notes |-> ns, k |-> 0, done |-> FALSE, clusters |-> <<>>,
              combined |-> FALSE, texts |-> <<>>] : ns \in CombineSnapshots}
  /\ GwIdle
  /\ CapIdle
  /\ ChatIdle
  /\ HandlersIdle
  /\ QueueIdle

(* the head of the loop over the clusters: combinedText of each *)
CombineClusters ==
  /\ cl.done
  /\ ~cl.combined
  /\ cl' = [cl EXCEPT !.combined = TRUE,
                      !.texts = [k \in 1..Len(cl.clusters) |->
                                   CombinedText(cl.clusters[k])]]
  /\ UNCHANGED <<appVars, gw, cap, chat, handlerVars, queueVars>>

CombineNext ==
  \/ RunClusters
  \/ CombineClusters

SpecCombine == CombineInit /\ [][CombineNext]_vars

----------------------------------------------------------------------------
(* The focal point of one chat: handleChat hands relevantShapes to
   captureAreaAroundShapes, which takes the medians of sorted copies and
   builds its box before its first await; when the capture has settled,
   handleChat sorts relevantShapes itself, in place, by x and then by y,
   and centres the view on the two elements it picks. *)

MaxRelevant == 4

MedianXs == {0, 10, 20, 30}

MedianYs == {0, 10, 20}

RelevantShapes ==
  UNION {[1..n -> [x : MedianXs, y : MedianYs]] : n \in 0..MaxRelevant}

MedianInit ==
  /\ AppIdle
  /\ ClIdle
  /\ GwIdle
  /\ CapIdle
  /\ ChatIdle
  /\ RelayIdle
  /\ UiIdle
  /\ HsIdle
  /\ md \in {[found |-> rs, relevantShapes |-> rs, pc |-> "found",
              focal |-> <<>>, box |-> <<>>, centered |-> <<>>] :
               rs \in RelevantShapes}
  /\ QueueIdle

(* if (relevantShapes.length > 0) captureAreaAroundShapes(relevantShapes),
   up to its first await; with no relevant shape nothing is captured and
   the view stays *)
MedianCapture ==
  /\ md.pc = "found"
  /\ md' = IF Len(md.relevantShapes) = 0
           THEN [md EXCEPT !.pc = "done"]
           ELSE [md EXCEPT !.pc = "capture",
                           !.focal = <<FocalPoint(md.relevantShapes)>>,
                           !.box = <<Region(FocalPoint(md.relevantShapes))>>]
  /\ UNCHANGED <<appVars, pureVars, relay, ui, hs, queueVars>>

(* the capture settles: with a data URL or null handleChat goes on to the
   two sorts and editor.centerOnPoint; a rejection goes to the catch *)
MedianCenter ==
  /\ md.pc = "capture"
  /\ \E settled \in BOOLEAN :
       md' = IF settled
             THEN [md EXCEPT
                     !.pc = "done",
                     !.relevantShapes = CenterPoint(md.relevantShapes).sorted,
                     !.centered = <<CenterPoint(md.relevantShapes).point>>]
             ELSE [md EXCEPT !.pc = "failed"]
  /\ UNCHANGED <<appVars, pureVars, relay, ui, hs, queueVars>>

MedianNext ==
  \/ MedianCapture
  \/ MedianCenter

SpecMedian == MedianInit /\ [][MedianNext]_vars

----------------------------------------------------------------------------
(* handleChange on its own: one notification that finds any page of up to
   MaxObserved shapes, with any retained map of notes; the canvas may
   differ from the retained map in several notes at once. *)

MaxObserved == 3

ObserverPoints == {Vec(0, 0), Vec(100, 0), Vec(0, 100)}

(* what a shape with a given id can be: a note, a blank text, or no text
   shape at all *)
ObservedShapes(id) ==
  {[id |-> id, type |-> "text", text |-> t, center |-> c, bounds |-> TRUE] :
     t \in {<<"a">>, <<"b">>}, c \in ObserverPoints}
  \cup {[id |-> id, type |-> "text", text |-> <<" ">>, center |-> Vec(0, 0),
         bounds |-> TRUE],
        [id |-> id, type |-> "geo", text |-> <<"a">>, center |-> Vec(0, 0),
         bounds |-> TRUE]}

(* the pages: shapes with different ids, in the order of their ids *)
ObserverCanvases ==
  {c \in UNION {[1..n -> UNION {ObservedShapes(id) : id \in 1..MaxObserved}] :
                  n \in 0..MaxObserved} :
     \A i, j \in 1..Len(c) : i < j => c[i].id < c[j].id}

(* the maps handleChange can have retained: the notes of an earlier page *)
ObserverMaps == {NewTextShapes(c) : c \in ObserverCanvases}

(* the retained map is the snapshot of the last call of onShapesChange,
   whose pass is over; the index is empty *)
ObserverInit ==
  /\ canvas \in ObserverCanvases
  /\ previousShapes \in ObserverMaps
  /\ emitted = (IF previousShapes = <<>> THEN 0 ELSE 1)
  /\ passes = <<>>
  /\ objects = <<>>
  /\ stored = <<>>
  /\ lastDone = (IF previousShapes = <<>> THEN <<>> ELSE <<previousShapes>>)
  /\ doneAdds = {}
  /\ overlapSeen = FALSE
  /\ created = MaxObserved
  /\ changes = 0
  /\ ClIdle
  /\ GwIdle
  /\ CapIdle
  /\ ChatIdle
  /\ HandlersIdle
  /\ QueueIdle

(* the change event of the transaction that left the page as it is *)
ObserveChange ==
  /\ changes = 0
  /\ changes' = changes + 1
  /\ HandleChange(canvas)
  /\ UNCHANGED <<canvas, objects, stored, lastDone, doneAdds, created,
                 unitVars, queueVars>>

ObserverNext == ObserveChange

SpecObserver == ObserverInit /\ [][ObserverNext]_vars

----------------------------------------------------------------------------
(* Vocabulary of the claims *)

(* the pass has requested an embedding, or removed or added an entry *)
IndexWork(p) ==
  \/ p.pc = "embed"
  \/ p.ri > 1
  \/ \E k \in 1..Len(p.log) : p.log[k] # "empty"

Rep(cluster) == cluster.shapes[1].id

MemberIds(cluster) == {cluster.shapes[k].id : k \in 1..Len(cluster.shapes)}

EntriesOf(index, shapeId) == {k \in 1..Len(index) : index[k].shapeId = shapeId}

NonEmptyClusters(textShapes) ==
  {c \in Range(Clusters(textShapes)) : CombinedText(c) # <<>>}

(* the step in which pass i completes its saveIndex *)
Completes(i) ==
  /\ i \in 1..Len(passes)
  /\ passes[i].pc = "save"
  /\ passes' = RemoveAt(passes, i)
  /\ stored' = objects

----------------------------------------------------------------------------
(* C1: indexing passes are serialized: a pass called for a later snapshot   *)
(* requests no embedding and removes or adds no entry while a pass called   *)
(* for an earlier snapshot has not completed its saveIndex.                 *)
C1_PassesSerialized ==
  \A i, j \in 1..Len(passes) : i < j => ~IndexWork(passes[j])

(* C2: whenever no pass is in flight, the index holds at most one entry for *)
(* the representative of each non-empty cluster of the snapshot processed   *)
(* last.                                                                    *)
C2_NoDuplicateEntries ==
  (passes = <<>> /\ lastDone # <<>>) =>
    \A c \in NonEmptyClusters(lastDone[1]) :
      Cardinality(EntriesOf(objects, Rep(c))) <= 1

(* C3: when a pass that was called after an earlier pass had indexed a      *)
(* note's cluster as T1 and completed itself indexes that note's cluster as *)
(* a different text T2, then on its completion exactly one entry has the    *)
(* note's shapeId, and its name is T2.                                      *)
C3_UpdateReplaces ==
  [][\A i \in 1..Len(passes) :
       Completes(i) =>
         \A new \in Adds(passes[i]) : \A old \in passes[i].prior :
           (old[1] = new[1] /\ old[2] # new[2]) =>
             /\ Cardinality(EntriesOf(objects', new[1])) = 1
             /\ \A k \in EntriesOf(objects', new[1]) : objects'[k].name = new[2]]_vars

(* C4: in a pass, once the embedding of a cluster is requested, and so      *)
(* before its new entry is added, every entry read from the persisted index *)
(* whose shapeId is the id of a member of the cluster has been removed.     *)
StaleLeft(p, cluster) ==
  {e \in Range(p.existingObjects) :
     e.shapeId \in MemberIds(cluster) /\ FindVectorIndex(e.id) # 0}

C4_RemoveBeforeInsert ==
  \A i \in 1..Len(passes) :
    LET p == passes[i]
        clusters == Clusters(p.snap)
    IN  /\ p.pc = "embed" => StaleLeft(p, clusters[p.ci]) = {}
        /\ \A k \in 1..Len(p.log) :
             p.log[k] \in {"added", "failed"} => StaleLeft(p, clusters[k]) = {}

(* C5: when a pass completes and all its embeddings succeeded, every entry  *)
(* of the index is the entry of a cluster of the snapshot the pass          *)
(* processed: its shapeId is the representative and its name the combined   *)
(* text.  Stated for the runs in which no two passes overlapped.            *)
AllSucceeded(p) == \A k \in 1..Len(p.log) : p.log[k] \in {"added", "empty"}

C5_IndexMatchesCanvas ==
  [][\A i \in 1..Len(passes) :
       (Completes(i) /\ ~overlapSeen /\ AllSucceeded(passes[i])) =>
         \A k \in 1..Len(objects') :
           \E c \in NonEmptyClusters(passes[i].snap) :
             objects'[k].shapeId = Rep(c) /\ objects'[k].name = CombinedText(c)]_vars

(* C6 as stated: a pass requests no embedding for a cluster whose           *)
(* representative has, in the index as the pass read it, an entry whose     *)
(* name is the cluster's combined text.                                     *)
HasCurrentEntry(p, cluster) ==
  \E e \in Range(p.existingObjects) :
    e.shapeId = Rep(cluster) /\ e.name = CombinedText(cluster)

C6_NoRedundantEmbedding ==
  \A i \in 1..Len(passes) :
    passes[i].pc = "embed" =>
      ~HasCurrentEntry(passes[i], Clusters(passes[i].snap)[passes[i].ci])

(* C6 amended: a pass passes over no cluster with a non-empty combined      *)
(* text: each one it has gone past had its embedding requested (and got an  *)
(* entry or failed), or a removal of its stale entries threw; and a cluster *)
(* the pass is working on has a non-empty combined text.                    *)
C6_EveryClusterEmbedded ==
  \A i \in 1..Len(passes) :
    LET p == passes[i]
        clusters == Clusters(p.snap)
    IN  /\ Len(p.log) = p.ci - 1
        /\ \A k \in 1..Len(p.log) :
             CombinedText(clusters[k]) # <<>>
               => p.log[k] \in {"added", "failed", "threw"}
        /\ p.pc \in {"remove", "embed"} => CombinedText(clusters[p.ci]) # <<>>

(* a pass re-embedded a cluster whose representative had a current entry *)
C6_Witness ==
  \E i \in 1..Len(passes) :
    \E k \in 1..Len(passes[i].log) :
      /\ passes[i].log[k] = "added"
      /\ HasCurrentEntry(passes[i], Clusters(passes[i].snap)[k])

(* C7: a cluster whose embedding fails does not end the pass: the pass      *)
(* goes on to the clusters after it and to saveIndex; and when a pass that  *)
(* started on an empty index, over three clusters of which only the middle  *)
(* one failed, completes, the index holds exactly two entries, those of the *)
(* first and the third cluster.                                             *)
C7_PartialFailureIsolation ==
  [][\A i \in 1..Len(passes) :
       Completes(i) =>
         LET p == passes[i]
             clusters == Clusters(p.snap)
         IN  /\ Len(p.log) = Len(clusters)
             /\ (p.startEmpty /\ p.log = <<"added", "failed", "added">>) =>
                  /\ Len(objects') = 2
                  /\ \A k \in {1, 3} :
                       \E j \in EntriesOf(objects', Rep(clusters[k])) :
                         objects'[j].name = CombinedText(clusters[k])]_vars

----------------------------------------------------------------------------
(* The notes of two snapshots are the same: the same ids, each with the    *)
(* same text and centre.                                                   *)
SameNotes(prev, new) == Range(prev) = Range(new)

(* C8: a notification on a canvas whose notes are those of the retained     *)
(* snapshot calls onShapesChange not at all and leaves the retained         *)
(* snapshot as it is.                                                       *)
C8_NoOpSilent ==
  [][SameNotes(previousShapes, NewTextShapes(canvas')) =>
       (emitted' = emitted /\ previousShapes' = previousShapes)]_vars

(* a notification left the retained snapshot alone: two shapes were added,  *)
(* one of them a note and the other not, and only the note was emitted      *)
C8_Witness ==
  /\ changes = 2
  /\ Len(canvas) = 2
  /\ emitted = 1
  /\ Len(previousShapes) = 1
  /\ previousShapes = NewTextShapes(canvas)

----------------------------------------------------------------------------
Ids(m) == {m[k].id : k \in 1..Len(m)}

(* the notes of prev that are not in new, or are in new with another text   *)
(* or centre                                                                *)
ChangedIds(prev, new) ==
  {id \in Ids(prev) : \/ Lookup(new, id) = <<>>
                      \/ Lookup(new, id)[1] # Lookup(prev, id)[1]}

(* exactly one note of prev was moved, edited or deleted, and no note came  *)
OneNoteDiffers(prev, new) ==
  /\ Ids(new) \subseteq Ids(prev)
  /\ Cardinality(ChangedIds(prev, new)) = 1

(* C9: a change notification after which exactly one note has another       *)
(* centre (x or y) or another text, or is gone, calls onShapesChange once,  *)
(* with the whole new snapshot, and the retained snapshot is then that      *)
(* snapshot.                                                                *)
C9_ChangeDetection ==
  [][(changes' = changes + 1
        /\ OneNoteDiffers(previousShapes, NewTextShapes(canvas'))) =>
       /\ emitted' = emitted + 1
       /\ previousShapes' = NewTextShapes(canvas')
       /\ Len(passes') = Len(passes) + 1
       /\ passes'[Len(passes')].snap = NewTextShapes(canvas')]_vars

(* the one note of the canvas was moved in y only, and that was emitted *)
C9_Witness ==
  /\ created = 1
  /\ changes = 2
  /\ emitted = 2
  /\ Len(previousShapes) = 1
  /\ previousShapes[1].center = Vec(0, 100)

----------------------------------------------------------------------------
(* the square of the Euclidean distance between two centres *)
SquaredDistance(a, b) ==
  (a.x - b.x) * (a.x - b.x) + (a.y - b.y) * (a.y - b.y)

(* C10: two notes are put in one cluster exactly when the Euclidean         *)
(* distance between their centres is less than 200; at a distance of 200 or *)
(* more they are two clusters of one note each.                             *)
C10_ClusteringThreshold ==
  (cl.done /\ Len(cl.notes) = 2) =>
    LET near == SquaredDistance(cl.notes[1].center, cl.notes[2].center)
                  < CLUSTER_THRESHOLD * CLUSTER_THRESHOLD
    IN  IF near
        THEN /\ Len(cl.clusters) = 1
             /\ Len(cl.clusters[1].shapes) = 2
        ELSE /\ Len(cl.clusters) = 2
             /\ Len(cl.clusters[1].shapes) = 1
             /\ Len(cl.clusters[2].shapes) = 1

(* two notes at a distance of exactly 200 were clustered apart *)
C10_Witness ==
  /\ cl.done
  /\ Len(cl.notes) = 2
  /\ SquaredDistance(cl.notes[1].center, cl.notes[2].center)
       = CLUSTER_THRESHOLD * CLUSTER_THRESHOLD
  /\ Len(cl.clusters) = 2

----------------------------------------------------------------------------
SumX(shapes) == SumSeq([i \in 1..Len(shapes) |-> shapes[i].center.x])

SumY(shapes) == SumSeq([i \in 1..Len(shapes) |-> shapes[i].center.y])

(* center, which stands for (x/n, y/n), is the mean of the members' centres *)
IsMean(center, shapes) ==
  /\ center.n > 0
  /\ center.x * Len(shapes) = SumX(shapes) * center.n
  /\ center.y * Len(shapes) = SumY(shapes) * center.n

(* C11: after every note the reduce has processed, the centre of each       *)
(* cluster is the mean of the centres of its members, x and y apart; and    *)
(* the notes (0,0), (100,0), (0,100), in that order, end as one cluster     *)
(* with the centre (100/3, 100/3).                                          *)
C11_CentroidIsMean ==
  /\ \A j \in 1..Len(cl.clusters) :
       IsMean(cl.clusters[j].center, cl.clusters[j].shapes)
  /\ (cl.done /\ Len(cl.notes) = 3
        /\ cl.notes[1].center = Vec(0, 0)
        /\ cl.notes[2].center = Vec(100, 0)
        /\ cl.notes[3].center = Vec(0, 100)) =>
       /\ Len(cl.clusters) = 1
       /\ 3 * cl.clusters[1].center.x = 100 * cl.clusters[1].center.n
       /\ 3 * cl.clusters[1].center.y = 100 * cl.clusters[1].center.n

(* the three notes of the example have been clustered *)
C11_Witness ==
  /\ cl.done
  /\ Len(cl.notes) = 3
  /\ cl.notes[1].center = Vec(0, 0)
  /\ cl.notes[2].center = Vec(100, 0)
  /\ cl.notes[3].center = Vec(0, 100)
  /\ Len(cl.clusters) = 1
  /\ Len(cl.clusters[1].shapes) = 3

(* the clusters of acc whose centre is less than 200 away from the point *)
Within(acc, point) ==
  {j \in 1..Len(acc) :
     LET c == acc[j].center
         dx == point.x * c.n - c.x
         dy == point.y * c.n - c.y
     IN  dx * dx + dy * dy < (CLUSTER_THRESHOLD * c.n) * (CLUSTER_THRESHOLD * c.n)}

(* C12: a note the reduce processes joins the earliest cluster whose centre *)
(* is less than 200 from the note's centre, whichever cluster is nearest,   *)
(* and the other clusters stay as they are; it opens a new cluster of its   *)
(* own exactly when no cluster is that near.                                *)
C12_FirstMatch ==
  [][cl'.k = cl.k + 1 =>
       LET acc == cl.clusters
           shape == cl.notes[cl.k + 1]
           near == Within(acc, shape.center)
       IN  IF near = {}
           THEN /\ Len(cl'.clusters) = Len(acc) + 1
                /\ cl'.clusters[Len(acc) + 1].shapes = <<shape>>
                /\ \A j \in 1..Len(acc) : cl'.clusters[j] = acc[j]
           ELSE LET first == CHOOSE j \in near : \A i \in near : j <= i
                IN  /\ Len(cl'.clusters) = Len(acc)
                    /\ cl'.clusters[first].shapes = Append(acc[first].shapes, shape)
                    /\ \A j \in 1..Len(acc) :
                         j # first => cl'.clusters[j] = acc[j]]_vars

(* a note at (199,0) joined the cluster at (0,0), made first, and not the   *)
(* nearer cluster at (300,0)                                                *)
C12_Witness ==
  /\ cl.done
  /\ Len(cl.notes) = 3
  /\ cl.notes[1].center = Vec(0, 0)
  /\ cl.notes[2].center = Vec(300, 0)
  /\ cl.notes[3].center = Vec(199, 0)
  /\ Len(cl.clusters) = 2
  /\ Len(cl.clusters[1].shapes) = 2

----------------------------------------------------------------------------
(* the ids of the members of the clusters whose combined text is empty *)
EmptyIds(textShapes) ==
  UNION {MemberIds(c) : c \in {d \in Range(Clusters(textShapes)) :
                                 CombinedText(d) = <<>>}}

EntriesFor(index, ids) == SelectSeq(index, LAMBDA e : e.shapeId \in ids)

(* C13: a pass removes no entry and adds no entry for a cluster whose       *)
(* combined text is empty (the entries in the index whose shapeId is the id *)
(* of a member of such a cluster are the same after every step), and the    *)
(* cluster for which a pass removes entries or requests an embedding has a  *)
(* combined text that is not empty.                                         *)
C13_EmptyClusterExclusion ==
  [][\A i \in 1..Len(passes) :
       LET p == passes[i]
           empty == EmptyIds(p.snap)
       IN  /\ EntriesFor(objects', empty) = EntriesFor(objects, empty)
           /\ p.pc \in {"remove", "embed"} =>
                CombinedText(Clusters(p.snap)[p.ci]) # <<>>]_vars

(* a pass is past a cluster with an empty combined text, for a member of    *)
(* which the index holds an entry, and has added the entry of another       *)
(* cluster                                                                  *)
C13_Witness ==
  \E i \in 1..Len(passes) :
    /\ passes[i].pc = "save"
    /\ \E k \in 1..Len(passes[i].log) :
         /\ passes[i].log[k] = "empty"
         /\ EntriesFor(objects, MemberIds(Clusters(passes[i].snap)[k])) # <<>>
    /\ \E k \in 1..Len(passes[i].log) : passes[i].log[k] = "added"

----------------------------------------------------------------------------
(* the calls, among the first 1 + RETRIES, at which the provider succeeds *)
Successes(calls) == {k \in 1..(RETRIES + 1) : calls[k]}

(* C14: getEmbeddingWithRetry calls the provider until a call succeeds, at  *)
(* most 1 + 3 times, with one delay before each call after the first; it    *)
(* returns the result of the first call that succeeds and calls no more;    *)
(* when the first call and the 3 retries all fail, it fails.                *)
C14_GatewayRetry ==
  gw.done =>
    IF Successes(gw.calls) = {}
    THEN /\ ~gw.result.ok
         /\ gw.result.calls = RETRIES + 1
         /\ gw.result.delays = RETRIES
    ELSE LET first == CHOOSE k \in Successes(gw.calls) :
                        \A j \in Successes(gw.calls) : k <= j
         IN  /\ gw.result.ok
             /\ gw.result.calls = first
             /\ gw.result.delays = first - 1

(* the first call and two retries failed, the third retry succeeded and a   *)
(* further call would have succeeded too                                    *)
C14_Witness ==
  /\ gw.done
  /\ Successes(gw.calls) = {RETRIES + 1}
  /\ gw.calls[RETRIES + 2]
  /\ gw.result.ok
  /\ gw.result.calls = RETRIES + 1

----------------------------------------------------------------------------
(* every cluster of the pass's snapshot has been finished: passed over as   *)
(* empty, or its removals, embedding request and addition are over          *)
AllClustersDone(p) == Len(p.log) = Len(Clusters(p.snap))

(* how far a pass has come: the cluster it is at, and the removal within   *)
(* that cluster                                                            *)
Before(p, q) ==
  \/ p.pc = "getAll" /\ q.pc # "getAll"
  \/ p.pc # "getAll" /\ q.pc # "getAll" /\ p.ci < q.ci
  \/ p.pc # "getAll" /\ q.pc # "getAll" /\ p.ci = q.ci /\ p.ri < q.ri

(* the pass is at an await whose resolution is a step it can take *)
CanStep(p) ==
  LET clusters == Clusters(p.snap)
  IN  \/ p.pc = "getAll"
      \/ /\ p.pc = "remove"
         /\ p.ci <= Len(clusters)
         /\ p.ri <= Len(ExistingEmbeddings(p.existingObjects, clusters[p.ci]))
      \/ p.pc = "embed" /\ p.ci <= Len(clusters)
      \/ p.pc = "save"

(* C15: a pass is at its saveIndex only when all its clusters are finished, *)
(* those whose embedding failed too; the persisted index changes, and a     *)
(* pass ends, only by the one saveIndex of such a pass; and every pass      *)
(* comes to its saveIndex: a pass in flight can always take its next step,  *)
(* and each step it takes brings it further.                                *)
C15_PersistOncePerPass ==
  [][/\ \A i \in 1..Len(passes') :
          passes'[i].pc = "save" => AllClustersDone(passes'[i])
     /\ (stored' # stored \/ Len(passes') < Len(passes)) =>
          /\ Len(passes') = Len(passes) - 1
          /\ \E i \in 1..Len(passes) :
               Completes(i) /\ AllClustersDone(passes[i])
     /\ \A i \in 1..Len(passes') : CanStep(passes'[i])
     /\ \A i \in 1..Len(passes) :
          (Len(passes') >= Len(passes) /\ passes'[i] # passes[i]) =>
            Before(passes[i], passes'[i])]_vars

(* a pass over two clusters is at its saveIndex after the embedding of one  *)
(* cluster failed and the other cluster got its entry                       *)
C15_Witness ==
  \E i \in 1..Len(passes) :
    /\ passes[i].pc = "save"
    /\ Len(passes[i].log) = 2
    /\ \E k \in 1..2 : passes[i].log[k] = "failed"
    /\ \E k \in 1..2 : passes[i].log[k] = "added"

(* C16: queue discipline of the queue-based revision.  At most one
   processQueue call is active; snapshots leave the queue in the order in
   which they arrived; and a snapshot is taken off the queue only by the
   call that starts the drain when none is active, or by the step in which
   the saveIndex of the current snapshot completes, all of its batches
   having finished before. *)
LastBatchDone(dr) ==
  /\ dr.pc = "save"
  /\ dr.pending = {}
  /\ dr.i + BATCH_SIZE > Len(dr.cur)

C16_QueueDiscipline ==
  [][/\ Len(drains') <= 1
     /\ \A k \in 1..Len(dequeued') : dequeued'[k] = k
     /\ \A k \in 1..Len(items') : items'[k].seq = Len(dequeued') + k
     /\ dequeued' # dequeued =>
          \/ drains = <<>> /\ ~processing /\ arrived' = arrived + 1
          \/ /\ Len(drains) = 1
             /\ LastBatchDone(drains[1])
             /\ stored' = objects
             /\ dequeued'[Len(dequeued) + 1] = drains[1].seq + 1]_vars

(* the second snapshot waited in the queue, was taken after the save of the
   first, and is being saved while the third waits *)
C16_Witness ==
  /\ Len(drains) = 1
  /\ drains[1].seq = 2
  /\ drains[1].pc = "save"
  /\ dequeued = <<1, 2>>
  /\ Len(items) = 1
  /\ Len(stored) >= 1


(* C17: the focal point that captureAreaAroundShapes uses for a non-empty
   list of positions has as x a median of the x coordinates and as y a
   median of the y coordinates, each taken on its own sorted order: the
   value occurs in the list, and at most half of the values lie below it
   and at most half above it, which for an odd count makes it the middle
   element; positions (0,0), (10,0), (20,0) give x = 10. *)
IsMedian(v, values) ==
  /\ \E i \in 1..Len(values) : values[i] = v
  /\ 2 * Cardinality({i \in 1..Len(values) : values[i] < v}) <= Len(values)
  /\ 2 * Cardinality({i \in 1..Len(values) : values[i] > v}) <= Len(values)

CoordsX(positions) == [i \in 1..Len(positions) |-> positions[i].x]

CoordsY(positions) == [i \in 1..Len(positions) |-> positions[i].y]

C17_MedianFocalPoint ==
  cap.focal # <<>> =>
    /\ IsMedian(cap.focal[1].x, CoordsX(cap.positions))
    /\ IsMedian(cap.focal[1].y, CoordsY(cap.positions))
    /\ cap.positions = <<[x |-> 0, y |-> 0], [x |-> 10, y |-> 0],
                         [x |-> 20, y |-> 0]>> => cap.focal[1].x = 10

(* three positions whose focal point is the position of none of them *)
C17_Witness ==
  /\ Len(cap.positions) = 3
  /\ cap.focal # <<>>
  /\ \A i \in 1..3 : cap.positions[i] # cap.focal[1]

(* the bounds lie fully within the box *)
FullyInside(box, b) ==
  /\ box.minX <= b.minX
  /\ b.maxX <= box.maxX
  /\ box.minY <= b.minY
  /\ b.maxY <= box.maxY

(* the ids of the page's shapes that have bounds fully within the region
   around the focal point of the positions *)
QualifyingIds ==
  {s.id : s \in {t \in cap.pageShapes :
                   /\ t.bounds # <<>>
                   /\ FullyInside(Region(FocalPoint(cap.positions)),
                                  t.bounds[1])}}

(* C18: captureAreaAroundShapes returns null instead of failing.  Its call
   never ends in a rejection; given no positions, or a page on which no
   shape has bounds fully inside the region, it returns null without
   having called the export; and when the export throws it returns null. *)
C18_NullInsteadOfFailing ==
  /\ cap.result # "rejected"
  /\ (cap.pc \notin {"idle", "call"}
        /\ (cap.positions = <<>> \/ QualifyingIds = {})) =>
       (cap.pc = "done" /\ cap.result = "null" /\ cap.exports = 0)
  /\ cap.exportThrew => cap.result = "null"

(* C19: the ids passed to the export are exactly those of the page's shapes
   whose masked page bounds exist and lie fully within the 2560 by 1440
   region centred on the focal point; a shape outside the region, only
   partly inside it, or without bounds is never exported. *)
C19_ExactSelection ==
  cap.exports = 1 => cap.ids = QualifyingIds

(* an image is present: a non-empty string *)
ImagePresent == ~chat.base64Image.null /\ chat.base64Image.url # <<>>

(* the content ends with the search context *)
Carries(content, searchContext) ==
  /\ Len(content) >= Len(searchContext)
  /\ SubSeq(content, Len(content) - Len(searchContext) + 1, Len(content))
       = searchContext

(* C20: the list sent to the chat provider for a history of n messages
   starts with the framing message, which carries the search context;
   the n history messages follow in their order with role and content
   unchanged; and a last user message with a text part and the image
   follows if and only if an image is present, so that the list has n + 1
   messages without an image and n + 2 with one. *)
C20_ChatRequestAssembly ==
  chat.pc \in {"await", "done"} /\ chat.apiKey =>
    LET n == Len(chat.messages)
        sent == chat.sent
    IN  /\ Len(sent) = IF ImagePresent THEN n + 2 ELSE n + 1
        /\ sent[1].role = "user"
        /\ Carries(sent[1].content, chat.searchContext)
        /\ \A i \in 1..n :
             /\ sent[i + 1].role = chat.messages[i].role
             /\ sent[i + 1].content = chat.messages[i].content
        /\ ImagePresent =>
             /\ sent[n + 2].role = "user"
             /\ Len(sent[n + 2].content) = 2
             /\ sent[n + 2].content[1].type = "text"
             /\ sent[n + 2].content[2].type = "image_url"
             /\ sent[n + 2].content[2].url = chat.base64Image.url

(* a history of two messages sent with an image: four messages *)
C20_Witness ==
  /\ chat.pc = "await"
  /\ Len(chat.messages) = 2
  /\ ImagePresent
  /\ Len(chat.sent) = 4

(* the response is 2xx with a body {content: <string>} *)
IsContent(r) == r.status = 200 /\ DOMAIN r.body = {"content"}

(* the response is not 2xx and its body has an error string *)
IsError(r) ==
  r.status >= 300 /\ "error" \in DOMAIN r.body /\ r.body.error # <<>>

(* C21: the relay's contract.  A body that parses and has messages and
   searchContext, without an image, is answered with 2xx and {content},
   the content being the first choice's text or the fallback string when
   the provider returns nothing; a request without messages or without
   searchContext, and a request on which the provider fails, are answered
   with a non-2xx status and an error string. *)
C21_RelayContract ==
  relay.pc = "done" =>
    /\ (relay.json /\ relay.messages # <<>> /\ relay.searchContext # <<>>
          /\ ~Truthy(relay.base64Image) /\ relay.outcome # "throws") =>
         /\ IsContent(relay)
         /\ relay.body.content =
              IF relay.outcome = "text" THEN <<"r">>
              ELSE <<"No response generated">>
    /\ (relay.messages = <<>> \/ relay.searchContext = <<>>) => IsError(relay)
    /\ relay.outcome = "throws" => IsError(relay)

(* C22: handleChat called with a non-empty input and no API key appends
   the one assistant message that asks for the key and does nothing else:
   no embedding call, no search, no capture, no provider call, no error,
   no call left outstanding, and the conversation before it and the chat
   input stay as they were. *)
C22_ConfigurationFailure ==
  [][(ui'.submits = ui.submits + 1 /\ Trim(ui.chatInput) # <<>>
        /\ ~ui.apiKey) =>
       ui' = [ui EXCEPT !.submits = @ + 1,
                        !.messages = Append(@, KeyMessage)]]_vars

(* a submit without a key has been answered with the request for the key *)
C22_Witness ==
  /\ ~ui.apiKey
  /\ ui.submits = 2
  /\ ui.messages = <<KeyMessage, KeyMessage>>
  /\ ui.embeds = 0

(* s is t with messages added at its end *)
IsPrefix(t, s) == Len(t) <= Len(s) /\ SubSeq(s, 1, Len(t)) = t

(* the numbers of the calls that are outstanding *)
Outstanding(u) == {c.n : c \in Range(u.calls)}

(* C23: a failure inside handleChat appends exactly one apology and ends
   the call, and the conversation only grows.  Every step keeps the
   messages already there, in their order and unchanged; a step in which
   the catch runs appends the apology and nothing else; and a call that
   ends before the provider was asked, that is, on a failed embedding,
   search or capture, ends in the catch. *)
C23_ChatFailureAppendOnly ==
  [][/\ IsPrefix(ui.messages, ui'.messages)
     /\ ui'.errors # ui.errors =>
          /\ ui'.errors = ui.errors + 1
          /\ ui'.messages = Append(ui.messages, Apology)
          /\ Cardinality(Outstanding(ui')) = Cardinality(Outstanding(ui)) - 1
     /\ \A n \in Outstanding(ui) \ Outstanding(ui') :
          /\ Len(ui'.messages) = Len(ui.messages) + 1
          /\ ui'.messages[Len(ui'.messages)].role = "assistant"
          /\ CallOf(ui, n).pc # "chat" => ui'.errors = ui.errors + 1]_vars

(* the provider failed after the user's message was appended: the
   conversation is the user's message and the apology *)
C23_Witness ==
  /\ ui.errors = 1
  /\ ui.chats = 1
  /\ ui.calls = <<>>
  /\ ui.messages = <<[role |-> "user", content |-> <<"q">>], Apology>>

(* C24: while a handleChat call is outstanding no second one can start, so
   at most one chat request is in flight. *)
C24_OneChatAtATime == Cardinality(Outstanding(ui)) <= 1

(* the shape of the entry is on the canvas and has page bounds *)
LiveWithBounds(shapes, entry) ==
  \E s \in shapes : s.id = entry.shapeId /\ s.bounds # <<>>

(* the centre of the bounds that the entry's shape has on the canvas now *)
LiveCentre(shapes, entry) ==
  (CHOOSE s \in shapes : s.id = entry.shapeId).bounds[1]

(* the call with number n reads the canvas in this step *)
ReadsCanvas(n) ==
  /\ n \in Outstanding(ui) /\ n \in Outstanding(ui')
  /\ CallOf(ui, n).pc = "search"
  /\ CallOf(ui', n).pc # "search"

(* C25: when handleChat has its search results, the positions it goes on
   with are the current centres of the results' shapes, in the order of
   the results, with nothing for a result whose shape is gone or has no
   page bounds and with no error raised for it; the capture is called
   only with such positions, and the view is centred on their per-axis
   median.  The position stored in the index entry is never used. *)
C25_MissingReferentPositions ==
  [][/\ \A n \in Outstanding(ui) : ReadsCanvas(n) =>
          LET call == CallOf(ui', n)
              kept == SelectSeq(call.results,
                        LAMBDA r : LiveWithBounds(ui.shapes, r))
          IN  /\ ui'.errors = ui.errors
              /\ Len(call.positions) = Len(kept)
              /\ \A k \in 1..Len(kept) :
                   call.positions[k] = LiveCentre(ui.shapes, kept[k])
              /\ (call.pc = "capture") = (Len(kept) > 0)
     /\ ui'.centered # ui.centered =>
          \E n \in Outstanding(ui) :
            /\ CallOf(ui, n).pc = "capture"
            /\ CallOf(ui, n).positions # <<>>
            /\ ui'.centered = <<FocalPoint(CallOf(ui, n).positions)>>]_vars

(* a call has two results, one of a shape that is gone and one of a shape
   that has moved since it was indexed, and goes on with the one position
   that the moved shape has now *)
C25_Witness ==
  \E c \in Range(ui.calls) :
    /\ c.pc = "capture"
    /\ Len(c.results) = 2
    /\ Len(c.positions) = 1
    /\ \A r \in Range(c.results) : r.position # c.positions[1]

(* C26: the text context that handleChat builds from its search results
   has text only for the results whose shape is on the canvas: a result
   whose shape is gone is left out. *)
C26_MissingReferentContext ==
  [][\A n \in Outstanding(ui) : ReadsCanvas(n) =>
       LET call == CallOf(ui', n)
           live == SelectSeq(call.results,
                     LAMBDA r : \E s \in ui.shapes : s.id = r.shapeId)
       IN  /\ Len(call.context) = Len(live)
           /\ \A k \in 1..Len(live) : call.context[k].id = live[k].id]_vars

(* C27: a failure inside handleSearch empties the result list, navigates
   nowhere, selects nothing and ends the call in the catch; a call whose
   embedding has not succeeded can end in no other way; and a handleSearch
   call with an empty or blank query changes nothing and makes no
   embedding or index call. *)
C27_SearchErrorHandling ==
  [][/\ hs'.errors # hs.errors =>
          /\ hs'.errors = hs.errors + 1
          /\ hs'.results = <<>>
          /\ hs'.centered = hs.centered
          /\ hs'.selected = hs.selected
          /\ Cardinality(Outstanding(hs')) = Cardinality(Outstanding(hs)) - 1
     /\ \A n \in Outstanding(hs) \ Outstanding(hs') :
          CallOf(hs, n).pc = "embed" => hs'.errors = hs.errors + 1
     /\ (hs'.submits = hs.submits + 1 /\ Trim(hs.query) = <<>>) =>
          hs' = [hs EXCEPT !.submits = @ + 1]]_vars

(* a first search has shown results and navigated, a second one has
   failed: the list is empty and the view is where the first one left it *)
C27_Witness ==
  /\ hs.errors = 1
  /\ hs.submits = 2
  /\ hs.calls = <<>>
  /\ hs.results = <<>>
  /\ hs.selected # <<>>

(* the text without the spaces at its two ends *)
Stripped(t) ==
  LET inked == {i \in 1..Len(t) : t[i] # " "}
  IN  IF inked = {} THEN <<>>
      ELSE SubSeq(t, CHOOSE i \in inked : \A j \in inked : i <= j,
                     CHOOSE i \in inked : \A j \in inked : i >= j)

(* the texts one after the other with one space between neighbours *)
RECURSIVE Spaced(_)
Spaced(ts) ==
  IF ts = <<>> THEN <<>>
  ELSE LET front == SubSeq(ts, 1, Len(ts) - 1)
       IN  Spaced(front) \o (IF front = <<>> THEN <<>> ELSE <<" ">>)
             \o ts[Len(ts)]

(* C28: the combined text of a cluster is its members' texts, each without
   the spaces at its ends, those that are then empty left out, with one
   space between neighbours, in the order in which the members joined the
   cluster, which is the order of the snapshot. *)
C28_CombinedText ==
  cl.combined =>
    \A k \in 1..Len(cl.clusters) :
      LET members == cl.clusters[k].shapes
          stripped == [i \in 1..Len(members) |-> Stripped(members[i].text)]
      IN  /\ \A i, j \in 1..Len(members) :
               i < j => members[i].id < members[j].id
          /\ cl.texts[k] = Spaced(SelectSeq(stripped, LAMBDA t : t # <<>>))

(* a cluster of three members, the middle one blank: the two other texts
   with one space between them *)
C28_Witness ==
  /\ cl.combined
  /\ \E k \in 1..Len(cl.clusters) :
       /\ Len(cl.clusters[k].shapes) = 3
       /\ cl.clusters[k].shapes[1].text = <<" ", "b", " ">>
       /\ cl.clusters[k].shapes[2].text = <<" ">>
       /\ cl.clusters[k].shapes[3].text = <<"c", " ", "d">>
       /\ cl.texts[k] = <<"b", " ", "c", " ", "d">>

(* the clusters of the batch that the drain is working on *)
BatchWindow(dr) == {k \in dr.i..(dr.i + BATCH_SIZE - 1) : k <= Len(dr.cur)}

(* C29: while processQueue handles a snapshot, the embedding requests that
   are outstanding belong to one batch of at most 5 clusters; an entry is
   added only for a cluster of that batch; the next batch starts only when
   no request of the current batch is outstanding; and saveIndex is called
   only when the last batch has no request outstanding. *)
C29_BoundedBatchConcurrency ==
  [][/\ \A d \in 1..Len(drains') :
          /\ Cardinality(drains'[d].pending) <= 5
          /\ drains'[d].pending \subseteq BatchWindow(drains'[d])
          /\ drains'[d].pc = "save" => LastBatchDone(drains'[d])
     /\ \A d \in 1..Len(drains) :
          (Len(drains') = Len(drains) /\ drains'[d].seq = drains[d].seq) =>
            /\ drains'[d].i # drains[d].i =>
                 /\ drains[d].pending = {}
                 /\ drains'[d].i = drains[d].i + 5
            /\ drains'[d].pc # drains[d].pc => drains[d].pending = {}
            /\ Len(objects') > Len(objects) =>
                 \E k \in BatchWindow(drains[d]) :
                   /\ drains[d].pending \ drains'[d].pending = {k}
                   /\ objects'[Len(objects')].shapeId
                        = drains[d].cur[k].shapes[1].id]_vars

(* the second batch is under way after the five clusters of the first
   have finished, some with an entry and some without *)
C29_Witness ==
  /\ Len(drains) = 1
  /\ drains[1].i = 6
  /\ drains[1].pending # {}
  /\ Len(objects) \in 1..4

(* the centres of the notes, in the order of the snapshot *)
CentresOf(notes) == [i \in 1..Len(notes) |-> notes[i].center.x]

(* the partition of the notes that the clusters make, each note named by
   the x of its centre *)
PartitionOf(clusters) ==
  {{s.center.x : s \in Range(c.shapes)} : c \in Range(clusters)}

(* C30: the clustering depends on the order of the snapshot.  The notes at
   x = 0, 120 and 300 on one line are partitioned into {0, 120} and {300}
   when the snapshot lists them as 0, 300, 120, and into {300, 120} and
   {0} when it lists them as 300, 0, 120: the same set of notes in two
   orders gives two different partitions. *)
C30_OrderDependence ==
  (cl.done /\ \A i \in 1..Len(cl.notes) : cl.notes[i].center.y = 0) =>
    /\ CentresOf(cl.notes) = <<0, 300, 120>> =>
         PartitionOf(cl.clusters) = {{0, 120}, {300}}
    /\ CentresOf(cl.notes) = <<300, 0, 120>> =>
         PartitionOf(cl.clusters) = {{300, 120}, {0}}

(* the second order has been clustered, and its partition is not the one
   of the first order *)
C30_Witness ==
  /\ cl.done
  /\ \A i \in 1..Len(cl.notes) : cl.notes[i].center.y = 0
  /\ CentresOf(cl.notes) = <<300, 0, 120>>
  /\ PartitionOf(cl.clusters) # {{0, 120}, {300}}

(* v is the element at index k (from 0) of the ascending sort of values *)
IsAtSortedIndex(v, values, k) ==
  /\ Cardinality({i \in 1..Len(values) : values[i] < v}) <= k
  /\ Cardinality({i \in 1..Len(values) : values[i] <= v}) > k

(* C31: for an even number n of positions the focal coordinate on each
   axis, in captureAreaAroundShapes and in handleChat alike, is the element
   at index n/2 (from 0) of that axis's ascending sort, the upper of the
   two middle elements; for (0,0), (10,0), (20,0), (30,0) the focal x is 20
   and not 10. *)
C31_EvenCountMedian ==
  \A point \in Range(md.focal) \cup Range(md.centered) :
    Len(md.found) % 2 = 0 =>
      /\ IsAtSortedIndex(point.x, CoordsX(md.found), Len(md.found) \div 2)
      /\ IsAtSortedIndex(point.y, CoordsY(md.found), Len(md.found) \div 2)
      /\ md.found = <<[x |-> 0, y |-> 0], [x |-> 10, y |-> 0],
                      [x |-> 20, y |-> 0], [x |-> 30, y |-> 0]>> =>
           point.x = 20 /\ point.x # 10

(* the four positions of the example, captured and centred on *)
C31_Witness ==
  /\ md.found = <<[x |-> 0, y |-> 0], [x |-> 10, y |-> 0],
                  [x |-> 20, y |-> 0], [x |-> 30, y |-> 0]>>
  /\ md.focal # <<>>
  /\ md.centered # <<>>
  /\ md.focal[1].x = 20

(* the centre of a box, doubled to stay in the integers *)
TwiceCentre(box) == [x |-> box.minX + box.maxX, y |-> box.minY + box.maxY]

(* C36: whenever handleChat centres the view, which it does exactly when
   there was a relevant shape and the capture did not reject, the point
   passed to centerOnPoint is the centre of the box captureAreaAroundShapes
   built for the same relevantShapes, although handleChat sorts the list in
   place, by x and then by y, and the capture sorts two copies. *)
C36_SameFocalPoint ==
  md.centered # <<>> =>
    /\ md.box # <<>>
    /\ TwiceCentre(md.box[1]).x = 2 * md.centered[1].x
    /\ TwiceCentre(md.box[1]).y = 2 * md.centered[1].y
    /\ md.centered = md.focal

(* the view was centred for a list that neither sort leaves as it was, and
   whose order by x is not its order by y *)
C36_Witness ==
  /\ md.centered # <<>>
  /\ Len(md.found) = 4
  /\ SortBy(md.found, "x") # md.found
  /\ SortBy(SortBy(md.found, "x"), "y") # SortBy(md.found, "x")
  /\ md.relevantShapes # md.found
  /\ md.centered[1] \notin Range(md.found)

(* the places (cluster, member) at which the note with this id stands *)
PlacesOf(clusters, id) ==
  {<<j, m>> \in (1..Len(clusters)) \X (1..MaxNotes) :
     m <= Len(clusters[j].shapes) /\ clusters[j].shapes[m].id = id}

(* the notes visited so far are partitioned by the clusters: every visited
   note stands at exactly one place, every member is a visited note, no
   cluster is empty, and the members of a cluster stand in the order of the
   snapshot (whose ids are its positions) *)
IsPartition(notes, k, clusters) ==
  /\ \A i \in 1..k : Cardinality(PlacesOf(clusters, notes[i].id)) = 1
  /\ \A j \in 1..Len(clusters) :
       /\ clusters[j].shapes # <<>>
       /\ \A m \in 1..Len(clusters[j].shapes) :
            \E i \in 1..k : clusters[j].shapes[m] = notes[i]
       /\ \A m, n \in 1..Len(clusters[j].shapes) :
            m < n => clusters[j].shapes[m].id < clusters[j].shapes[n].id

(* one visit either opens a cluster whose only member is the visited note,
   at the end of the list, or adds the note to a cluster; in both cases the
   first member of every cluster that existed stays *)
RepresentativeOpens ==
  /\ Len(cl'.clusters) \in {Len(cl.clusters), Len(cl.clusters) + 1}
  /\ Len(cl'.clusters) = Len(cl.clusters) + 1 =>
       cl'.clusters[Len(cl'.clusters)].shapes = <<cl.notes[cl'.k]>>
  /\ \A j \in 1..Len(cl.clusters) :
       Head(cl'.clusters[j].shapes) = Head(cl.clusters[j].shapes)

(* C32: the clustering pass yields a partition of the snapshot: after every
   visit, and so after the last one, every visited note is a member of
   exactly one cluster, no cluster is empty, each cluster's members stand
   in the snapshot's order, and each cluster's first member is the note
   that opened it. *)
C32_ClusteringPartition ==
  /\ [](IsPartition(cl.notes, cl.k, cl.clusters))
  /\ [][RepresentativeOpens]_vars

(* a finished pass over three notes with two clusters, the first of which
   holds the first and the third note *)
C32_Witness ==
  /\ cl.done
  /\ Len(cl.notes) = 3
  /\ Len(cl.clusters) = 2
  /\ Len(cl.clusters[1].shapes) = 2
  /\ cl.clusters[1].shapes[2].id = 3

(* the step in which the embedding of cluster p.ci of pass i fails after
   all retries *)
EmbeddingFails(i) ==
  /\ passes[i].pc = "embed"
  /\ Len(passes') = Len(passes)
  /\ Len(passes'[i].log) > Len(passes[i].log)
  /\ passes'[i].log[Len(passes[i].log) + 1] = "failed"

(* C33: a failed re-embedding loses the old entry.  When the embedding of a
   cluster fails after all retries, the entries the pass had found for the
   cluster's members are no longer in the index, the step adds no entry,
   and when there were such entries the index is not the one the pass
   had read, which still held them. *)
C33_FailedReembeddingLosesEntry ==
  [][\A i \in 1..Len(passes) :
       EmbeddingFails(i) =>
         LET p == passes[i]
             old == ExistingEmbeddings(p.existingObjects, Clusters(p.snap)[p.ci])
         IN  /\ \A e \in Range(old) :
                  \A k \in 1..Len(objects') : objects'[k].id # e.id
             /\ objects' = objects
             /\ old # <<>> =>
                  objects' # p.existingObjects]_vars

(* a pass whose cluster had an entry, lost it to a failed embedding, and
   has gone on: the entry is in the persisted index and not in memory *)
C33_Witness ==
  /\ Len(passes) = 1
  /\ \E k \in 1..Len(passes[1].log) :
       /\ passes[1].log[k] = "failed"
       /\ ExistingEmbeddings(passes[1].existingObjects,
                             Clusters(passes[1].snap)[k]) # <<>>
       /\ \E e \in Range(stored) :
            /\ e.shapeId \in MemberIds(Clusters(passes[1].snap)[k])
            /\ e \notin Range(objects)

(* C34: retry count and termination.  A getEmbeddingWithRetry call with the
   default bound is over in one run that invokes the provider at least once
   and at most 4 times and waits one delay less than it invokes; when the
   provider fails at each of the 4 invocations the call invokes it exactly
   4 times, waits exactly 3 delays, none after the last failure, and fails
   with the error of the 4th invocation; it fails in no other case. *)
C34_RetryCountAndTermination ==
  /\ [](gw.done =>
          /\ gw.result.calls \in 1..4
          /\ gw.result.delays = gw.result.calls - 1
          /\ (\A k \in 1..4 : ~gw.calls[k]) =>
               /\ ~gw.result.ok
               /\ gw.result.calls = 4
               /\ gw.result.delays = 3
          /\ ~gw.result.ok => \A k \in 1..4 : ~gw.calls[k])
  /\ [][~gw.done /\ gw'.done]_vars

(* the provider failed four times and would have succeeded at a fifth
   invocation, which the call did not make *)
C34_Witness ==
  /\ gw.done
  /\ \A k \in 1..4 : ~gw.calls[k]
  /\ gw.calls[5]
  /\ ~gw.result.ok
  /\ gw.result.calls = 4
  /\ gw.result.delays = 3

(* the two maps differ: another key set, or a key with another text,
   center x or center y *)
MapsDiffer(prev, new) ==
  \/ Ids(prev) # Ids(new)
  \/ \E i \in 1..Len(prev), j \in 1..Len(new) :
       /\ prev[i].id = new[j].id
       /\ \/ prev[i].text # new[j].text
          \/ prev[i].center.x # new[j].center.x
          \/ prev[i].center.y # new[j].center.y

(* C35: handleChange calls onShapesChange, once and with the new map, if
   and only if the map of notes it has built differs from the retained
   map; otherwise it calls nothing and keeps the retained map.  This
   includes the notification that finds one note gone and another note
   come, with the count unchanged. *)
C35_EmissionIsMapInequality ==
  [][LET new == NewTextShapes(canvas')
     IN  changes' = changes + 1 =>
         IF MapsDiffer(previousShapes, new)
         THEN /\ emitted' = emitted + 1
              /\ previousShapes' = new
              /\ passes'[Len(passes')].snap = new
         ELSE /\ emitted' = emitted
              /\ previousShapes' = previousShapes
              /\ passes' = passes]_vars

(* a notification was emitted for a map with as many notes as the map
   retained before it, one note of which was gone and another one come *)
C35_Witness ==
  /\ changes = 1
  /\ emitted = 2
  /\ lastDone # <<>>
  /\ passes # <<>>
  /\ passes[1].snap = previousShapes
  /\ Len(previousShapes) = Len(lastDone[1])
  /\ Cardinality(Ids(previousShapes) \ Ids(lastDone[1])) = 1
  /\ Cardinality(Ids(lastDone[1]) \ Ids(previousShapes)) = 1
  /\ \A i \in 1..Len(previousShapes) :
       previousShapes[i].id \in Ids(lastDone[1]) =>
         previousShapes[i] \in Range(lastDone[1])

(* the drain loop is at an await that settles: an embedding request of the
   batch is outstanding, or Promise.all can resolve, or saveIndex is awaited *)
AtAwait(dr) == dr.pc \in {"batch", "save"} /\ (dr.pc = "save" => dr.pending = {})

(* what the drain loop has left to do: the snapshots behind it, the batches
   behind the current one, and within the batch the requests and the
   resolution of Promise.all, or the save *)
WorkLeft(its, drs) ==
  IF drs = <<>> THEN <<Len(its), 0, 0>>
  ELSE <<Len(its) + 1,
         (Len(drs[1].cur) - drs[1].i) \div BATCH_SIZE,
         IF drs[1].pc = "save" THEN 0 ELSE Cardinality(drs[1].pending) + 1>>

(* lexicographic order on the triples *)
LessWork(a, b) ==
  \/ a[1] < b[1]
  \/ a[1] = b[1] /\ a[2] < b[2]
  \/ a[1] = b[1] /\ a[2] = b[2] /\ a[3] < b[3]

(* C37: with embedding calls that terminate and a saveIndex that never
   fails, every snapshot pushed on the indexing queue is taken off it and
   processed exactly once, and the queue comes to rest.  In each state the
   arrivals taken are distinct, and those not yet taken wait in the queue;
   as long as a snapshot waits or the flag is set, one drain loop is at an
   await that settles; each step of the drain loop leaves strictly less
   work; so with settling awaits the work ends, and when no drain loop is
   running the queue is empty, the flag is false, every arrival has been
   taken, and it stays so until the next arrival. *)
C37_QueueLiveness ==
  [][/\ \A j, k \in 1..Len(dequeued') : j # k => dequeued'[j] # dequeued'[k]
     /\ {dequeued'[k] : k \in 1..Len(dequeued')}
          \cup {items'[k].seq : k \in 1..Len(items')} = 1..arrived'
     /\ Len(dequeued') + Len(items') = arrived'
     /\ (items' # <<>> \/ processing') =>
          Len(drains') = 1 /\ AtAwait(drains'[1])
     /\ drains' = <<>> =>
          items' = <<>> /\ ~processing' /\ Len(dequeued') = arrived'
     /\ arrived' = arrived =>
          LessWork(WorkLeft(items', drains'), WorkLeft(items, drains))]_vars

(* all arrivals have come, each was taken off the queue once, the last two
   after waiting in it, and the queue is at rest *)
C37_Witness ==
  /\ arrived = MaxArrivals
  /\ dequeued = [k \in 1..MaxArrivals |-> k]
  /\ items = <<>>
  /\ ~processing
  /\ drains = <<>>
  /\ Len(stored) >= 2

(* C38: the processing flag is true exactly while a drain loop is active,
   and at most one is.  The flag is set by the call that starts the loop,
   before the loop's first await; it is reset when the loop ends, which it
   does with an empty queue or by a failed saveIndex, which leaves the
   queue as it is; and with no drain loop
   running a snapshot is taken off the queue only by a new arrival, which
   starts a loop that takes the waiting snapshots first. *)
C38_FlagTracksDrainLoop ==
  [][/\ processing' <=> drains' # <<>>
     /\ Len(drains') <= 1
     /\ (~processing /\ processing') => arrived' = arrived + 1
     /\ (processing /\ ~processing') =>
          /\ arrived' = arrived
          /\ drains[1].pc = "save"
          /\ \/ items' = <<>>
             \/ items' = items /\ dequeued' = dequeued
     /\ (drains = <<>> /\ dequeued' # dequeued) =>
          /\ arrived' = arrived + 1
          /\ items # <<>> => dequeued'[Len(dequeued) + 1] = items[1].seq]_vars

(* a failed saveIndex has ended the drain loop with a snapshot waiting: the
   flag is false and no loop is active *)
C38_Witness ==
  /\ drains = <<>>
  /\ ~processing
  /\ items # <<>>
  /\ dequeued # <<>>

(* C39: the queue-based revision never removes entries.  Every step leaves
   the entries of the index in place; a step adds at most one entry, at the
   end, and only as the settling of the embedding request of a cluster with
   text of the snapshot being processed, whose representative and combined
   text the entry carries; the number of entries with that shapeId grows by
   one, whatever entries an earlier snapshot left for the same cluster. *)
C39_QueueOnlyAdds ==
  [][/\ IsPrefix(objects, objects')
     /\ Len(objects') <= Len(objects) + 1
     /\ objects' # objects =>
          /\ Len(drains) = 1
          /\ \E k \in drains[1].pending \ drains'[1].pending :
               LET cluster == drains[1].cur[k]
                   entry == objects'[Len(objects')]
               IN  /\ CombinedText(cluster) # <<>>
                   /\ entry.shapeId = Rep(cluster)
                   /\ entry.name = CombinedText(cluster)
                   /\ Cardinality(EntriesOf(objects', Rep(cluster)))
                        = Cardinality(EntriesOf(objects, Rep(cluster))) + 1]_vars

(* two snapshots with the same cluster have been processed and saved: the
   persisted index holds two entries with the representative's shapeId and
   the same name *)
C39_Witness ==
  /\ drains = <<>>
  /\ Len(dequeued) = 2
  /\ Len(stored) = 2
  /\ stored[1].shapeId = stored[2].shapeId
  /\ stored[1].name = stored[2].name
  /\ stored[1].id # stored[2].id

============================================================================
